---- MODULE Spec2Model ----
(***************************************************************************)
(* Deployment state machine of the AI deploy platform                      *)
(* (core/deployment.py, core/models.py).                                   *)
(*                                                                         *)
(* State: the deployment records persisted under deployments_path, the     *)
(* wall clock, and for every caller the handler it is executing together   *)
(* with the in-memory Deployment object that handler holds.  A handler is  *)
(* split where the code blocks on the Provisioner: the first step runs the *)
(* handler up to the provisioner call (load, guards, mutation, first       *)
(* save), the second step is the provisioner's return or exception and the *)
(* handler's code after it.                                                *)
(*                                                                         *)
(* The Provisioner (KubernetesDeployer / ServerlessDeployer) is an         *)
(* external collaborator: whether a call returns or raises, the endpoint   *)
(* it returns and the error text it raises are chosen nondeterministically.*)
(* The model artifact a deployment refers to is assumed to stay in the     *)
(* model repository, so get_deployment finds every persisted record.       *)
(***************************************************************************)
EXTENDS Integers, Sequences, FiniteSets, TLC

\* ------------------------------------------------------------------ bounds
MaxDeployments == 2
MaxTime == 6

Ids == 1..MaxDeployments
Callers == {"a", "b"}
SeqCallers == {"a"}

\* ------------------------------------------------------------- value pools
None == "None"
NoRecord == [absent |-> TRUE]
NotSupplied == [supplied |-> FALSE]

DeploymentType == {"serverless", "kubernetes", "edge"}
SupportedTypes == {"kubernetes", "serverless"}

DeploymentStatus ==
  {"pending", "deploying", "active", "scaling", "hibernated", "failed",
   "terminating", "terminated"}

DefaultResourceRequirements ==
  [cpu |-> "100m", memory |-> "128Mi", gpu |-> None, storage |-> None]

DefaultScalingPolicy ==
  [min_instances |-> 0, max_instances |-> 5, target_cpu_utilization |-> 70,
   scale_to_zero_delay |-> 300]

DefaultCostOptimizationPolicy ==
  [use_spot_instances |-> TRUE, hibernation_enabled |-> TRUE,
   multi_cloud_arbitrage |-> FALSE, storage_tiering |-> TRUE]

BigResources == [cpu |-> "2", memory |-> "4Gi", gpu |-> "1", storage |-> None]
WideScaling ==
  [min_instances |-> 1, max_instances |-> 10, target_cpu_utilization |-> 50,
   scale_to_zero_delay |-> 600]
NoHibernationPolicy ==
  [use_spot_instances |-> TRUE, hibernation_enabled |-> FALSE,
   multi_cloud_arbitrage |-> FALSE, storage_tiering |-> TRUE]

EmptyMeta == [k \in {} |-> None]
OwnerMeta == [k \in {"owner"} |-> "ann"]
TierMeta == [k \in {"tier"} |-> "gold"]

Endpoints == {"https://model.example.com", "https://fn.example.com"}
ErrTexts == {"quota exceeded", "connection refused"}
UnsupportedText == "Unsupported deployment type: edge"

\* Arguments of deploy_model and of update_deployment that callers pass.
DeployArgs ==
  { [deployment_type |-> "kubernetes", resource_requirements |-> NotSupplied,
     scaling_policy |-> NotSupplied, cost_optimization_policy |-> NotSupplied,
     metadata |-> NotSupplied],
    [deployment_type |-> "kubernetes", resource_requirements |-> NotSupplied,
     scaling_policy |-> NotSupplied,
     cost_optimization_policy |-> NoHibernationPolicy, metadata |-> OwnerMeta],
    [deployment_type |-> "serverless", resource_requirements |-> NotSupplied,
     scaling_policy |-> NotSupplied, cost_optimization_policy |-> NotSupplied,
     metadata |-> OwnerMeta],
    [deployment_type |-> "edge", resource_requirements |-> NotSupplied,
     scaling_policy |-> NotSupplied, cost_optimization_policy |-> NotSupplied,
     metadata |-> NotSupplied] }

UpdateArgs ==
  { [resource_requirements |-> NotSupplied, scaling_policy |-> NotSupplied,
     cost_optimization_policy |-> NotSupplied, metadata |-> NotSupplied],
    [resource_requirements |-> BigResources, scaling_policy |-> NotSupplied,
     cost_optimization_policy |-> NotSupplied, metadata |-> NotSupplied],
    [resource_requirements |-> NotSupplied, scaling_policy |-> WideScaling,
     cost_optimization_policy |-> NotSupplied, metadata |-> TierMeta],
    [resource_requirements |-> NotSupplied, scaling_policy |-> NotSupplied,
     cost_optimization_policy |-> NoHibernationPolicy, metadata |-> NotSupplied],
    [resource_requirements |-> NotSupplied, scaling_policy |-> NotSupplied,
     cost_optimization_policy |-> DefaultCostOptimizationPolicy,
     metadata |-> EmptyMeta] }

\* ------------------------------------------------------------------- state
VARIABLES store, now, created, calls, last, beforeHibernate, opt, batch

\* The state of the deployment service and its callers.
smVars == <<store, now, created, calls, last, beforeHibernate>>

\* The price table file of the arbitrage service and the frames of its
\* callers; the access records, stored files and model metadata of the
\* storage tiering service and its frame; the metric histories of the
\* monitoring service. `collected` keeps every sample ever saved.
VARIABLES price_file, pricers, access_data, accessed, files, models,
          tierer, metrics_data, collected, monitor

extVars == <<price_file, pricers, access_data, accessed, files, models,
             tierer, metrics_data, collected, monitor>>

vars == <<store, now, created, calls, last, beforeHibernate, opt, batch,
          price_file, pricers, access_data, accessed, files, models, tierer,
          metrics_data, collected, monitor>>

Idle == [pc |-> "idle"]

\* No optimizer pass has run: optimize_deployment keeps its deployment, its
\* results dictionary and its position in local variables only.
NoResults == [k \in {} |-> None]
OptIdle == [pc |-> "idle", check |-> "none", id |-> 0, dep |-> NoRecord,
            pre |-> NoRecord,
            results |-> NoResults, smcalls |-> <<>>, pending |-> NoRecord,
            seen |-> NoRecord, outcome |-> "none", error |-> None,
            at |-> 0]
BatchIdle == [pc |-> "idle", todo |-> <<>>, listed |-> {}, current |-> 0,
              results |-> NoResults]
NoOp == [op |-> "none", id |-> 0, outcome |-> "none", pre |-> NoRecord,
         ret |-> NoRecord, provisioner |-> <<>>, err |-> None,
         endpoint |-> None, hib |-> NoRecord, args |-> NotSupplied, at |-> 0]

\* ------------------------------------------- optimization/multi_cloud.py
\* Unit prices are counted in millionths of a dollar.
Region(region, cpu, memory, gpu) ==
  [region |-> region, cpu |-> cpu, memory |-> memory, gpu |-> gpu]

\* The table _init_price_tracking writes, providers and regions in the
\* order of the dictionary.
InitialProviders ==
  << [provider |-> "aws",
      regions |-> << Region("us-east-1", 40000, 10000, 500000),
                     Region("us-west-1", 45000, 11000, 550000),
                     Region("eu-west-1", 42000, 10500, 520000) >>],
     [provider |-> "gcp",
      regions |-> << Region("us-central1", 35000, 9000, 450000),
                     Region("us-west1", 38000, 9500, 480000),
                     Region("europe-west1", 37000, 9200, 470000) >>],
     [provider |-> "azure",
      regions |-> << Region("eastus", 38000, 8000, 480000),
                     Region("westus", 41000, 8500, 510000),
                     Region("westeurope", 40000, 8200, 500000) >>] >>

\* ------------------------------------------- optimization/multi_cloud.py
\* "last_update": None
NeverUpdated == -1

\* price_tracking.json: `complete` is false between open(path, "w"), which
\* empties the file, and the end of json.dump.
InitialPriceFile ==
  [complete |-> TRUE, last_update |-> NeverUpdated, providers |-> InitialProviders]

PricerIdle == [pc |-> "idle"]

\* access_tracking.json after _init_access_tracking and metrics_tracking.json
\* after _init_metrics_tracking: {}.
NoAccessData == [k \in {} |-> None]
NoMetricsData == [k \in {} |-> <<>>]

\* No model file is stored and no model metadata exists.
NoFiles == [p \in {} |-> None]
NoModels == [m \in {} |-> None]

TiererIdle == [pc |-> "idle"]

\* The services other than the one a specification exercises are at rest.
PriceIdle ==
  price_file = InitialPriceFile /\ pricers = [c \in Callers |-> PricerIdle]
TierIdle ==
  /\ access_data = NoAccessData
  /\ accessed = NoMetricsData
  /\ files = NoFiles
  /\ models = NoModels
  /\ tierer = TiererIdle
MonitorIdle ==
  /\ metrics_data = NoMetricsData
  /\ collected = NoMetricsData
  /\ monitor = [pc |-> "idle"]
ExtIdle == PriceIdle /\ TierIdle /\ MonitorIdle

\* ------------------------------------------------------- core/models.py
\* Optional constructor argument: `x or Default()`.
OrDefault(x, default) == IF x = NotSupplied THEN default ELSE x

\* Deployment.__init__: a fresh record in pending with no endpoint and the
\* three timestamps equal to the construction time.
NewDeployment(id, name, model_id, model_type, args, t) ==
  [id |-> id,
   name |-> name,
   model_id |-> model_id,
   model_type |-> model_type,
   deployment_type |-> args.deployment_type,
   resource_requirements |->
      OrDefault(args.resource_requirements, DefaultResourceRequirements),
   scaling_policy |-> OrDefault(args.scaling_policy, DefaultScalingPolicy),
   cost_optimization_policy |->
      OrDefault(args.cost_optimization_policy, DefaultCostOptimizationPolicy),
   metadata |-> OrDefault(args.metadata, EmptyMeta),
   status |-> "pending",
   endpoint |-> None,
   created_at |-> t,
   updated_at |-> t,
   last_active_at |-> t]

\* Deployment.to_dict: the JSON form written to <id>.json.
ToDict(d) ==
  [id |-> d.id, name |-> d.name, model_id |-> d.model_id,
   model_type |-> d.model_type, deployment_type |-> d.deployment_type,
   resource_requirements |-> d.resource_requirements,
   scaling_policy |-> d.scaling_policy,
   cost_optimization_policy |-> d.cost_optimization_policy,
   metadata |-> d.metadata, status |-> d.status, endpoint |-> d.endpoint,
   created_at |-> d.created_at, updated_at |-> d.updated_at,
   last_active_at |-> d.last_active_at]

\* The from_dict of ResourceRequirements, ScalingPolicy and
\* CostOptimizationPolicy: every constructor argument is read with data.get
\* and the constructor's default. Records made from the request classes of
\* api.py carry those classes' fields (timeout, hibernation_idle_timeout,
\* multi_cloud_enabled) in place of storage, multi_cloud_arbitrage and
\* storage_tiering, and are read field by field in the same way.
FieldsFromDict(data, defaults) ==
  [k \in DOMAIN defaults |->
     IF k \in DOMAIN data THEN data[k] ELSE defaults[k]]

ResourceRequirementsFromDict(data) ==
  FieldsFromDict(data,
    IF "timeout" \in DOMAIN data
    THEN [cpu |-> "100m", memory |-> "128Mi", gpu |-> None, timeout |-> 30]
    ELSE DefaultResourceRequirements)

ScalingPolicyFromDict(data) == FieldsFromDict(data, DefaultScalingPolicy)

CostOptimizationPolicyFromDict(data) ==
  FieldsFromDict(data,
    IF "hibernation_idle_timeout" \in DOMAIN data
    THEN [use_spot_instances |-> TRUE, hibernation_enabled |-> TRUE,
          hibernation_idle_timeout |-> 1800, multi_cloud_enabled |-> FALSE]
    ELSE DefaultCostOptimizationPolicy)

FromDictKeepingConstructorStatus(data, t) ==
  [NewDeployment(0, data.name, data.model_id, data.model_type,
                 [deployment_type |-> data.deployment_type,
                  resource_requirements |->
                     ResourceRequirementsFromDict(data.resource_requirements),
                  scaling_policy |->
                     ScalingPolicyFromDict(data.scaling_policy),
                  cost_optimization_policy |->
                     CostOptimizationPolicyFromDict(
                        data.cost_optimization_policy),
                  metadata |-> data.metadata], t)
   EXCEPT !.id = data.id, !.endpoint = data.endpoint,
          !.created_at = data.created_at, !.updated_at = data.updated_at,
          !.last_active_at = data.last_active_at]

\* Deployment.from_dict: a constructor call (fresh id, pending, no endpoint,
\* timestamps of the load time t), after which the stored id, status,
\* endpoint and timestamps are put back.
FromDict(data, t) ==
  [NewDeployment(0, data.name, data.model_id, data.model_type,
                 [deployment_type |-> data.deployment_type,
                  resource_requirements |->
                     ResourceRequirementsFromDict(data.resource_requirements),
                  scaling_policy |->
                     ScalingPolicyFromDict(data.scaling_policy),
                  cost_optimization_policy |->
                     CostOptimizationPolicyFromDict(
                        data.cost_optimization_policy),
                  metadata |-> data.metadata], t)
   EXCEPT !.id = data.id, !.status = data.status, !.endpoint = data.endpoint,
          !.created_at = data.created_at, !.updated_at = data.updated_at,
          !.last_active_at = data.last_active_at]

\* --------------------------------------------------- core/deployment.py
\* get_deployment: None when <id>.json does not exist.
GetDeployment(id) ==
  IF store[id] = NoRecord THEN NoRecord ELSE FromDict(store[id], now)

\* _save_deployment: writes the record's dictionary form to <id>.json.
SaveDeployment(st, d) == [st EXCEPT ![d.id] = ToDict(d)]

RemoveDeploymentKeepsFile(st, id) == st

\* os.remove(<id>.json) when the file exists.
RemoveDeployment(st, id) == [st EXCEPT ![id] = NoRecord]

\* dict.update(other)
MetaUpdate(m, other) ==
  [k \in (DOMAIN m) \cup (DOMAIN other) |->
     IF k \in DOMAIN other THEN other[k] ELSE m[k]]

SetErrorDropped(m, text) == m

\* metadata["error"] = str(e)
SetError(m, text) == MetaUpdate(m, [k \in {"error"} |-> text])

\* Python truthiness of an optional argument: None and {} are false.
Truthy(x) == x # NotSupplied /\ x # EmptyMeta

ApplyUpdateReplacingMetadata(d, args) ==
  [d EXCEPT
     !.resource_requirements =
        IF Truthy(args.resource_requirements) THEN args.resource_requirements ELSE @,
     !.scaling_policy =
        IF Truthy(args.scaling_policy) THEN args.scaling_policy ELSE @,
     !.cost_optimization_policy =
        IF Truthy(args.cost_optimization_policy)
        THEN args.cost_optimization_policy ELSE @,
     !.metadata = IF Truthy(args.metadata) THEN args.metadata ELSE @]

\* The property assignments of update_deployment.
ApplyUpdate(d, args) ==
  [d EXCEPT
     !.resource_requirements =
        IF Truthy(args.resource_requirements) THEN args.resource_requirements ELSE @,
     !.scaling_policy =
        IF Truthy(args.scaling_policy) THEN args.scaling_policy ELSE @,
     !.cost_optimization_policy =
        IF Truthy(args.cost_optimization_policy)
        THEN args.cost_optimization_policy ELSE @,
     !.metadata =
        IF Truthy(args.metadata) THEN MetaUpdate(@, args.metadata) ELSE @]

DeployedWithoutEndpoint(d, ep, t) ==
  [d EXCEPT !.status = "active", !.updated_at = t]

\* deploy_model after the deployer returned: endpoint, status and updated_at.
Deployed(d, ep, t) ==
  [d EXCEPT !.endpoint = ep, !.status = "active", !.updated_at = t]

UpdatedStillScaling(d, t) == [d EXCEPT !.updated_at = t]

\* update_deployment after the deployer returned.
Updated(d, t) == [d EXCEPT !.status = "active", !.updated_at = t]

ActivatedWithoutLastActive(d, t) ==
  [d EXCEPT !.status = "active", !.updated_at = t]

\* activate_deployment after the deployer returned.
Activated(d, t) ==
  [d EXCEPT !.status = "active", !.updated_at = t, !.last_active_at = t]

\* The `except Exception` block shared by the five handlers.
OnFailure(d, text, t) ==
  [d EXCEPT !.status = "failed", !.metadata = SetError(d.metadata, text),
            !.updated_at = t]

\* The guard of hibernate_deployment: only the policy flag is consulted.
HibernateAllowed(d) == d.cost_optimization_policy.hibernation_enabled

ActivateAllowedUnlessActive(d) == d.status # "active" /\ d.status # "deploying"

\* The guard of activate_deployment.
ActivateAllowed(d) == d.status = "hibernated"

Busy(c) == calls[c].pc # "idle"

\* Caller c is inside the try block of a handler.
InTry(c, op) == calls[c].pc = "try" /\ calls[c].op = op

\* A provisioner call is in flight for caller c: the handler dispatched on
\* a supported deployment type and waits for the deployer.
InFlight(c) ==
  /\ calls[c].pc = "try"
  /\ calls[c].dep.deployment_type \in SupportedTypes

\* History of the last handler that returned, raised or died: its name, the
\* record it found, what it returned, the deployer methods it invoked, the
\* error it raised and the time of its last step.
Finish(op, id, outcome, pre, ret, prov, err, ep, hib, args) ==
  last' = [op |-> op, id |-> id, outcome |-> outcome, pre |-> pre,
           ret |-> ret, provisioner |-> prov, err |-> err, endpoint |-> ep,
           hib |-> hib, args |-> args, at |-> now]

Enter(c, op, d, pre, hib, args) ==
  calls' = [calls EXCEPT
              ![c] = [pc |-> "try", op |-> op, dep |-> d, pre |-> pre,
                      hib |-> hib, args |-> args]]

LeaveRetrying(c) == calls' = calls

\* The handler returns or raises: its frame is gone.
Leave(c) == calls' = [calls EXCEPT ![c] = Idle]

Forget(id) == beforeHibernate' = [beforeHibernate EXCEPT ![id] = NoRecord]

\* utcnow(): every step of a handler reads a later time than the step before.
Tick == now < MaxTime /\ now' = now + 1

Init ==
  /\ store = [i \in Ids |-> NoRecord]
  /\ now = 0
  /\ created = 0
  /\ calls = [c \in Callers |-> Idle]
  /\ last = NoOp
  /\ beforeHibernate = [i \in Ids |-> NoRecord]
  /\ opt = OptIdle
  /\ batch = BatchIdle
  /\ ExtIdle

\* deploy_model up to the provisioner call.
DeployBegin(c, args) ==
  /\ ~Busy(c)
  /\ created < MaxDeployments
  /\ Tick
  /\ LET id == created + 1
         d == [NewDeployment(id, "deployment", "model", "original", args, now)
                 EXCEPT !.status = "deploying"]
     IN /\ store' = SaveDeployment(store, d)
        /\ Enter(c, "deploy", d, NoRecord, NoRecord, args)
        /\ created' = id
  /\ UNCHANGED <<last, beforeHibernate>>

\* deploy_model after the deployer returned an endpoint.
DeployOk(c, ep) ==
  /\ InTry(c, "deploy") /\ InFlight(c)
  /\ Tick
  /\ LET d == Deployed(calls[c].dep, ep, now)
     IN /\ store' = SaveDeployment(store, d)
        /\ Finish("deploy", d.id, "ok", calls[c].pre, d, <<"deploy">>, None,
                  ep, NoRecord, calls[c].args)
  /\ Leave(c)
  /\ UNCHANGED <<created, beforeHibernate>>

\* update_deployment up to the provisioner call.
UpdateBegin(c, id, args) ==
  /\ ~Busy(c)
  /\ Tick
  /\ LET loaded == GetDeployment(id)
         d == [ApplyUpdate(loaded, args) EXCEPT !.status = "scaling",
                                                !.updated_at = now]
     IN IF loaded = NoRecord
        THEN /\ Finish("update", id, "notfound", store[id], NoRecord, <<>>,
                       None, None, NoRecord, args)
             /\ UNCHANGED <<store, calls, beforeHibernate>>
        ELSE /\ store' = SaveDeployment(store, d)
             /\ Enter(c, "update", d, store[id], NoRecord, args)
             /\ Forget(id)
             /\ UNCHANGED last
  /\ UNCHANGED created

\* update_deployment after the deployer returned.
UpdateOk(c) ==
  /\ InTry(c, "update") /\ InFlight(c)
  /\ Tick
  /\ LET d == Updated(calls[c].dep, now)
     IN /\ store' = SaveDeployment(store, d)
        /\ Finish("update", d.id, "ok", calls[c].pre, d, <<"update">>, None,
                  None, NoRecord, calls[c].args)
        /\ Forget(d.id)
  /\ Leave(c)
  /\ UNCHANGED created

\* delete_deployment up to the provisioner call.
DeleteBegin(c, id) ==
  /\ ~Busy(c)
  /\ Tick
  /\ LET loaded == GetDeployment(id)
         d == [loaded EXCEPT !.status = "terminating"]
     IN IF loaded = NoRecord
        THEN /\ Finish("delete", id, "notfound", store[id], NoRecord, <<>>,
                       None, None, NoRecord, NotSupplied)
             /\ UNCHANGED <<store, calls, beforeHibernate>>
        ELSE /\ store' = SaveDeployment(store, d)
             /\ Enter(c, "delete", d, store[id], NoRecord, NotSupplied)
             /\ Forget(id)
             /\ UNCHANGED last
  /\ UNCHANGED created

\* delete_deployment after the deployer returned: the record file is removed.
DeleteOk(c) ==
  /\ InTry(c, "delete") /\ InFlight(c)
  /\ Tick
  /\ LET d == calls[c].dep
     IN /\ store' = RemoveDeployment(store, d.id)
        /\ Finish("delete", d.id, "ok", calls[c].pre, NoRecord, <<"delete">>,
                  None, None, NoRecord, calls[c].args)
        /\ Forget(d.id)
  /\ Leave(c)
  /\ UNCHANGED created

\* hibernate_deployment up to the provisioner call.
HibernateBegin(c, id) ==
  /\ ~Busy(c)
  /\ Tick
  /\ LET loaded == GetDeployment(id)
         d == [loaded EXCEPT !.status = "hibernated", !.updated_at = now]
     IN IF loaded = NoRecord
        THEN /\ Finish("hibernate", id, "notfound", store[id], NoRecord, <<>>,
                       None, None, NoRecord, NotSupplied)
             /\ UNCHANGED <<store, calls, beforeHibernate>>
        ELSE IF ~HibernateAllowed(loaded)
        THEN /\ Finish("hibernate", id, "noop", store[id], loaded, <<>>,
                       None, None, NoRecord, NotSupplied)
             /\ UNCHANGED <<store, calls, beforeHibernate>>
        ELSE /\ store' = SaveDeployment(store, d)
             /\ Enter(c, "hibernate", d, store[id], NoRecord, NotSupplied)
             /\ Forget(id)
             /\ UNCHANGED last
  /\ UNCHANGED created

\* hibernate_deployment after the deployer returned: nothing further is saved.
HibernateOk(c) ==
  /\ InTry(c, "hibernate") /\ InFlight(c)
  /\ Tick
  /\ LET d == calls[c].dep
     IN /\ Finish("hibernate", d.id, "ok", calls[c].pre, d, <<"hibernate">>,
                  None, None, NoRecord, calls[c].args)
        /\ beforeHibernate' = [beforeHibernate EXCEPT ![d.id] = calls[c].pre]
  /\ Leave(c)
  /\ UNCHANGED <<store, created>>

\* activate_deployment up to the provisioner call.
ActivateBegin(c, id) ==
  /\ ~Busy(c)
  /\ Tick
  /\ LET loaded == GetDeployment(id)
         d == [loaded EXCEPT !.status = "deploying", !.updated_at = now]
     IN IF loaded = NoRecord
        THEN /\ Finish("activate", id, "notfound", store[id], NoRecord, <<>>,
                       None, None, NoRecord, NotSupplied)
             /\ UNCHANGED <<store, calls, beforeHibernate>>
        ELSE IF ~ActivateAllowed(loaded)
        THEN /\ Finish("activate", id, "noop", store[id], loaded, <<>>,
                       None, None, NoRecord, NotSupplied)
             /\ UNCHANGED <<store, calls, beforeHibernate>>
        ELSE /\ store' = SaveDeployment(store, d)
             /\ Enter(c, "activate", d, store[id], beforeHibernate[id], NotSupplied)
             /\ Forget(id)
             /\ UNCHANGED last
  /\ UNCHANGED created

\* activate_deployment after the deployer returned.
ActivateOk(c) ==
  /\ InTry(c, "activate") /\ InFlight(c)
  /\ Tick
  /\ LET d == Activated(calls[c].dep, now)
     IN /\ store' = SaveDeployment(store, d)
        /\ Finish("activate", d.id, "ok", calls[c].pre, d, <<"activate">>,
                  None, None, calls[c].hib, calls[c].args)
        /\ Forget(d.id)
  /\ Leave(c)
  /\ UNCHANGED created

\* The deployer raised inside the try block of any handler.
ProvisionerRaises(c, text) ==
  /\ InFlight(c)
  /\ Tick
  /\ LET d == OnFailure(calls[c].dep, text, now)
     IN /\ store' = SaveDeployment(store, d)
        /\ Finish(calls[c].op, d.id, "raise", calls[c].pre, d,
                  <<calls[c].op>>, text, None, NoRecord, calls[c].args)
        /\ Forget(d.id)
  /\ Leave(c)
  /\ UNCHANGED created

\* The else branch of the dispatch: ValueError for a deployment type that is
\* neither kubernetes nor serverless; no deployer is called.
UnsupportedType(c) ==
  /\ calls[c].pc = "try"
  /\ calls[c].dep.deployment_type \notin SupportedTypes
  /\ Tick
  /\ LET d == OnFailure(calls[c].dep, UnsupportedText, now)
     IN /\ store' = SaveDeployment(store, d)
        /\ Finish(calls[c].op, d.id, "raise", calls[c].pre, d, <<>>,
                  UnsupportedText, None, NoRecord, calls[c].args)
        /\ Forget(d.id)
  /\ Leave(c)
  /\ UNCHANGED created

\* The process dies while a handler waits for the deployer: the files stay
\* as the handler last wrote them.
Crash(c) ==
  /\ InFlight(c)
  /\ Tick
  /\ Finish(calls[c].op, calls[c].dep.id, "crash", calls[c].pre, NoRecord,
            <<calls[c].op>>, None, None, NoRecord, calls[c].args)
  /\ Leave(c)
  /\ UNCHANGED <<store, created, beforeHibernate>>

Step(c) ==
  \/ \E args \in DeployArgs : DeployBegin(c, args)
  \/ \E ep \in Endpoints : DeployOk(c, ep)
  \/ \E id \in Ids, args \in UpdateArgs : UpdateBegin(c, id, args)
  \/ UpdateOk(c)
  \/ \E id \in Ids : DeleteBegin(c, id)
  \/ DeleteOk(c)
  \/ \E id \in Ids : HibernateBegin(c, id)
  \/ HibernateOk(c)
  \/ \E id \in Ids : ActivateBegin(c, id)
  \/ ActivateOk(c)
  \/ \E text \in ErrTexts : ProvisionerRaises(c, text)
  \/ UnsupportedType(c)
  \/ Crash(c)

\* One caller at a time: the single-process scheduler of the platform.
Next ==
  \E c \in SeqCallers : Step(c) /\ UNCHANGED <<opt, batch>> /\ UNCHANGED extVars

Spec == Init /\ [][Next]_vars

\* ------------------------------------------------------------ properties
\* No handler is between its first save and its return.
AtRest == \A c \in Callers : ~Busy(c)

\* The last handler ran to completion (returned or raised) on a record that
\* is still persisted, and nothing has touched the store since.
Completed(op) ==
  /\ AtRest
  /\ last.op = op
  /\ last.outcome \in {"ok", "raise", "noop"}

Persisted(i) == store[i] # NoRecord

TransitionalStatuses == {"deploying", "scaling", "terminating", "hibernating"}

\* C1: after any completed deploy, update, hibernate, activate or delete
\* transition (successful or failed) the persisted endpoint is non-null if
\* and only if the persisted status is active.
C1_EndpointIffActive ==
  (/\ AtRest
   /\ last.op \in {"deploy", "update", "hibernate", "activate", "delete"}
   /\ last.outcome \in {"ok", "raise"}
   /\ Persisted(last.id))
  => (store[last.id].endpoint # None <=> store[last.id].status = "active")

\* C2: while a provisioner call is in flight for a deployment, the persisted
\* status of that deployment is deploying, scaling, terminating or
\* hibernating.
C2_InFlightIsTransitional ==
  \A c \in Callers :
    InFlight(c) =>
      /\ Persisted(calls[c].dep.id)
      /\ store[calls[c].dep.id].status \in TransitionalStatuses

\* C3: hibernate on a deployment whose policy disables hibernation or whose
\* status is not active leaves the persisted record unchanged and does not
\* invoke Provisioner.hibernate.
C3_HibernateNoOp ==
  /\ \A c \in Callers :
       InTry(c, "hibernate") =>
         /\ calls[c].pre.cost_optimization_policy.hibernation_enabled
         /\ calls[c].pre.status = "active"
  /\ (/\ AtRest
      /\ last.op = "hibernate"
      /\ last.outcome # "crash"
      /\ last.pre # NoRecord
      /\ \/ ~last.pre.cost_optimization_policy.hibernation_enabled
         \/ last.pre.status # "active")
     => /\ store[last.id] = last.pre
        /\ last.provisioner = <<>>

\* C4: activate on a deployment that is not hibernated leaves the persisted
\* record unchanged, invokes no provisioner and raises nothing; on a
\* hibernated deployment it persists deploying, invokes Provisioner.activate
\* once and, when that succeeds, ends in active.
C4_Activate ==
  /\ \A c \in Callers :
       InTry(c, "activate") =>
         /\ calls[c].pre.status = "hibernated"
         /\ store[calls[c].dep.id].status = "deploying"
  /\ (AtRest /\ last.op = "activate" /\ last.pre # NoRecord
        /\ last.pre.status # "hibernated")
     => /\ last.outcome = "noop"
        /\ store[last.id] = last.pre
        /\ last.ret = last.pre
        /\ last.provisioner = <<>>
  /\ (AtRest /\ last.op = "activate" /\ last.outcome = "ok")
     => /\ last.pre.status = "hibernated"
        /\ last.provisioner = <<"activate">>
        /\ store[last.id].status = "active"
        /\ last.ret.status = "active"

C4_Witness ==
  /\ AtRest /\ last.op = "activate" /\ last.outcome = "ok"
  /\ last.pre.status = "hibernated"
  /\ store[last.id].status = "active"

\* An activate call on a persisted deployment that is not hibernated returned.
C4_NoOpReached ==
  /\ AtRest /\ last.op = "activate" /\ last.outcome = "noop"
  /\ last.pre.status = "active"

\* The documented status graph; "absent" stands for no persisted record.
StatusOf(r) == IF r = NoRecord THEN "absent" ELSE r.status

DocumentedEdges ==
  {<<"absent", "deploying">>, <<"pending", "deploying">>,
   <<"deploying", "active">>, <<"active", "scaling">>,
   <<"scaling", "active">>, <<"active", "hibernated">>,
   <<"hibernated", "deploying">>}
  \cup { <<s, "failed">> :
           s \in {"deploying", "active", "scaling", "hibernating",
                  "terminating"} }
  \cup { <<s, "terminating">> :
           s \in {"active", "hibernated", "failed", "pending"} }
  \cup {<<"terminating", "absent">>}

\* C5: every change of a deployment's persisted status follows an edge of
\* the documented status graph.
C5_DocumentedTransitions ==
  [][\A i \in Ids :
       StatusOf(store[i]) # StatusOf(store'[i]) =>
         <<StatusOf(store[i]), StatusOf(store'[i])>> \in DocumentedEdges]_vars

\* C6 as stated: deploy persists deploying before the provisioner is invoked;
\* on success the record is active with the returned endpoint and updated_at
\* and last_active_at both stamped at completion; on failure the record is
\* retained as failed with the error text in metadata and the error is raised.
C6_DeployStampsLastActive ==
  /\ \A c \in Callers :
       InTry(c, "deploy") =>
         /\ Persisted(calls[c].dep.id)
         /\ store[calls[c].dep.id].status = "deploying"
  /\ (AtRest /\ last.op = "deploy" /\ last.outcome = "ok")
     => /\ Persisted(last.id)
        /\ store[last.id].status = "active"
        /\ store[last.id].endpoint = last.endpoint
        /\ store[last.id].updated_at = last.at
        /\ store[last.id].last_active_at = last.at
  /\ (AtRest /\ last.op = "deploy" /\ last.err # None)
     => /\ last.outcome = "raise"
        /\ Persisted(last.id)
        /\ store[last.id].status = "failed"
        /\ store[last.id].metadata["error"] = last.err

\* C6 amended: as above, except that a successful deploy stamps only
\* updated_at at completion; last_active_at keeps the creation time, which
\* lies before the completion.
C6_Deploy ==
  /\ \A c \in Callers :
       InTry(c, "deploy") =>
         /\ Persisted(calls[c].dep.id)
         /\ store[calls[c].dep.id].status = "deploying"
  /\ (AtRest /\ last.op = "deploy" /\ last.outcome = "ok")
     => /\ Persisted(last.id)
        /\ store[last.id].status = "active"
        /\ store[last.id].endpoint = last.endpoint
        /\ store[last.id].endpoint \in Endpoints
        /\ store[last.id].updated_at = last.at
        /\ store[last.id].last_active_at = store[last.id].created_at
        /\ store[last.id].created_at < last.at
  /\ (AtRest /\ last.op = "deploy" /\ last.err # None)
     => /\ last.outcome = "raise"
        /\ Persisted(last.id)
        /\ store[last.id].status = "failed"
        /\ store[last.id].metadata["error"] = last.err

C6_Witness ==
  /\ AtRest /\ last.op = "deploy" /\ last.outcome = "ok"
  /\ store[last.id].status = "active"
  /\ store[last.id].endpoint = last.endpoint

\* C7: delete persists terminating before Provisioner.delete is invoked; on
\* success the record is removed, on failure it is retained as failed with
\* the error text, and a record disappears only in the step in which a
\* delete whose provisioner call succeeded completes.
C7_Delete ==
  /\ [](/\ \A c \in Callers :
             InTry(c, "delete") =>
               /\ Persisted(calls[c].dep.id)
               /\ store[calls[c].dep.id].status = "terminating"
        /\ (AtRest /\ last.op = "delete" /\ last.outcome = "ok")
           => /\ ~Persisted(last.id)
              /\ GetDeployment(last.id) = NoRecord
              /\ last.provisioner = <<"delete">>
        /\ (AtRest /\ last.op = "delete" /\ last.outcome = "raise")
           => /\ Persisted(last.id)
              /\ store[last.id].status = "failed"
              /\ store[last.id].metadata["error"] = last.err)
  /\ [][\A i \in Ids :
          (Persisted(i) /\ store'[i] = NoRecord) =>
             /\ last'.op = "delete" /\ last'.id = i /\ last'.outcome = "ok"
             /\ last'.provisioner = <<"delete">>]_vars

C7_Witness ==
  /\ AtRest /\ last.op = "delete" /\ last.outcome = "ok"
  /\ last.pre.status = "active"
  /\ ~Persisted(last.id)

\* What update may change between the record it found (pre) and the record
\* it persisted (post), given the arguments a; errorKeyFree tells whether the
\* metadata key "error" is exempt from the frame.
KeysOf(m) == IF m = NotSupplied THEN {} ELSE DOMAIN m

UpdateFrame(pre, post, a, errorKeyFree) ==
  LET exempt == IF errorKeyFree THEN {"error"} ELSE {}
  IN /\ a.resource_requirements = NotSupplied
          => post.resource_requirements = pre.resource_requirements
     /\ a.scaling_policy = NotSupplied
          => post.scaling_policy = pre.scaling_policy
     /\ a.cost_optimization_policy = NotSupplied
          => post.cost_optimization_policy = pre.cost_optimization_policy
     /\ a.resource_requirements # NotSupplied
          => post.resource_requirements = a.resource_requirements
     /\ a.scaling_policy # NotSupplied
          => post.scaling_policy = a.scaling_policy
     /\ a.cost_optimization_policy # NotSupplied
          => post.cost_optimization_policy = a.cost_optimization_policy
     /\ (DOMAIN post.metadata) \ exempt
          = ((DOMAIN pre.metadata) \cup KeysOf(a.metadata)) \ exempt
     /\ \A k \in (DOMAIN pre.metadata) \ (KeysOf(a.metadata) \cup exempt) :
          post.metadata[k] = pre.metadata[k]
     /\ \A k \in KeysOf(a.metadata) \ exempt :
          post.metadata[k] = a.metadata[k]
     /\ post.id = pre.id
     /\ post.name = pre.name
     /\ post.deployment_type = pre.deployment_type
     /\ post.model_id = pre.model_id
     /\ post.model_type = pre.model_type
     /\ post.endpoint = pre.endpoint
     /\ post.created_at = pre.created_at
     /\ post.last_active_at = pre.last_active_at

\* C8 as stated: update changes only the supplied fields, merges supplied
\* metadata key by key, and never changes id, name, venue, model reference,
\* endpoint, created or last_active.
C8_UpdateChangesOnlySupplied ==
  /\ \A c \in Callers :
       InTry(c, "update") =>
         UpdateFrame(calls[c].pre, store[calls[c].dep.id], calls[c].args, FALSE)
  /\ (AtRest /\ last.op = "update" /\ last.outcome \in {"ok", "raise"})
     => UpdateFrame(last.pre, store[last.id], last.args, FALSE)

\* C8 amended: as above, except that an update whose provisioner call fails
\* sets the metadata key "error" to the error text.
C8_UpdateFrame ==
  /\ \A c \in Callers :
       InTry(c, "update") =>
         UpdateFrame(calls[c].pre, store[calls[c].dep.id], calls[c].args, FALSE)
  /\ (AtRest /\ last.op = "update" /\ last.outcome = "ok")
     => UpdateFrame(last.pre, store[last.id], last.args, FALSE)
  /\ (AtRest /\ last.op = "update" /\ last.outcome = "raise")
     => /\ UpdateFrame(last.pre, store[last.id], last.args, TRUE)
        /\ store[last.id].metadata["error"] = last.err

C8_Witness ==
  /\ AtRest /\ last.op = "update" /\ last.outcome = "ok"
  /\ last.args.metadata = TierMeta
  /\ "owner" \in DOMAIN last.pre.metadata
  /\ store[last.id].metadata["owner"] = "ann"
  /\ store[last.id].metadata["tier"] = "gold"
  /\ store[last.id].scaling_policy = WideScaling

\* C9: for an active deployment with hibernation enabled, a successful
\* hibernate followed by a successful activate returns an active deployment
\* with the resource requirements and scaling policy it had before the
\* hibernate and a strictly greater last_active.
C9_HibernateThenActivate ==
  (/\ AtRest /\ last.op = "activate" /\ last.outcome = "ok"
   /\ last.hib # NoRecord
   /\ last.hib.status = "active"
   /\ last.hib.cost_optimization_policy.hibernation_enabled)
  => /\ last.ret.status = "active"
     /\ store[last.id] = ToDict(last.ret)
     /\ last.ret.resource_requirements = last.hib.resource_requirements
     /\ last.ret.scaling_policy = last.hib.scaling_policy
     /\ last.ret.last_active_at > last.hib.last_active_at

C9_Witness ==
  /\ AtRest /\ last.op = "activate" /\ last.outcome = "ok"
  /\ last.hib # NoRecord
  /\ last.hib.status = "active"
  /\ last.hib.cost_optimization_policy.hibernation_enabled
  /\ last.ret.status = "active"

\* C10: a persisted deployment whose status is failed carries an error text
\* in its metadata; every handler whose provisioner call fails leaves the
\* record failed with that call's error text and raises it.
C10_FailedCarriesError ==
  /\ \A i \in Ids :
       (Persisted(i) /\ store[i].status = "failed") =>
          /\ "error" \in DOMAIN store[i].metadata
          /\ store[i].metadata["error"] \in ErrTexts \cup {UnsupportedText}
  /\ (AtRest /\ last.err # None)
     => /\ last.outcome = "raise"
        /\ Persisted(last.id)
        /\ store[last.id].status = "failed"
        /\ store[last.id].metadata["error"] = last.err
        /\ last.ret.metadata["error"] = last.err

C10_Witness ==
  /\ AtRest /\ last.op = "hibernate" /\ last.outcome = "raise"
  /\ last.err \in ErrTexts
  /\ store[last.id].status = "failed"
  /\ store[last.id].metadata["error"] = last.err

\* C11: a deploy request naming a deployment type that is neither kubernetes
\* nor serverless is rejected before any state mutation: no record of it is
\* persisted in any status, while the handler runs or after it, and no
\* provisioner is invoked.
C11_UnsupportedVenueRejected ==
  /\ \A c \in Callers :
       (InTry(c, "deploy") /\ calls[c].dep.deployment_type \notin SupportedTypes)
         => ~Persisted(calls[c].dep.id)
  /\ (AtRest /\ last.op = "deploy" /\ last.outcome # "crash"
        /\ last.args.deployment_type \notin SupportedTypes)
     => /\ ~Persisted(last.id)
        /\ last.provisioner = <<>>

\* C12: every handler invokes the provisioner at most once per call; a
\* provisioner call starts only in the first step of a newly requested
\* handler, and the step in which a handler reports the outcome of its
\* provisioner call (return, exception or death) ends that handler, so a
\* failed call is never retried.
C12_NoRetry ==
  /\ [](Len(last.provisioner) <= 1)
  /\ [][\A c \in Callers :
          /\ (InFlight(c)' /\ calls'[c] # calls[c]) => ~Busy(c)
          /\ (InFlight(c) /\ last' # last /\ last'.op = calls[c].op
                /\ last'.id = calls[c].dep.id)
             => /\ ~Busy(c)'
                /\ last'.provisioner = <<calls[c].op>>]_vars

C12_Witness ==
  /\ AtRest /\ last.op = "update" /\ last.outcome = "raise"
  /\ last.provisioner = <<"update">>
  /\ store[last.id].status = "failed"

\* ------------------------------------------------- concurrent callers
\* The service object takes no lock and keeps no state but the record files,
\* so handlers started from different threads run against the same files;
\* any handler step of any caller may come next.
NextConc ==
  \E c \in Callers : Step(c) /\ UNCHANGED <<opt, batch>> /\ UNCHANGED extVars

\* The in-memory record a successful deploy_model(args) started at time t
\* returns when the deployer answers with endpoint ep one step later.
DeployedAt(id, args, ep, t) ==
  Deployed([NewDeployment(id, "deployment", "model", "original", args, t)
              EXCEPT !.status = "deploying"], ep, t + 1)

\* The concurrent callers start once the first deployment has been deployed.
InitConc ==
  \E args \in DeployArgs, ep \in Endpoints :
    /\ args.deployment_type \in SupportedTypes
    /\ store = [i \in Ids |->
                  IF i = 1 THEN ToDict(DeployedAt(1, args, ep, 0)) ELSE NoRecord]
    /\ now = 2
    /\ created = 1
    /\ calls = [c \in Callers |-> Idle]
    /\ last = [NoOp EXCEPT !.op = "deploy", !.id = 1, !.outcome = "ok",
                           !.ret = DeployedAt(1, args, ep, 0),
                           !.provisioner = <<"deploy">>, !.endpoint = ep,
                           !.args = args, !.at = 1]
    /\ beforeHibernate = [i \in Ids |-> NoRecord]
    /\ opt = OptIdle
    /\ batch = BatchIdle
    /\ ExtIdle

SpecConc == InitConc /\ [][NextConc]_vars

\* C13: two concurrent handlers on one deployment never interleave their
\* read-modify-write of the record.  When a handler takes the step after its
\* provisioner call, the persisted record is still the one that handler
\* saved, so the outcome is that of a serial order: a completing update
\* drops no metadata key another caller has persisted, and an update never
\* turns a record another caller has hibernated into active.
C13_NoInterleaving ==
  [][\A c \in Callers :
       (Busy(c) /\ calls'[c] # calls[c]) =>
         LET i == calls[c].dep.id
         IN /\ store[i] = ToDict(calls[c].dep)
            /\ (Persisted(i) /\ store'[i] # NoRecord) =>
                 \A k \in (DOMAIN store[i].metadata) \ {"error"} :
                    k \in DOMAIN store'[i].metadata
            /\ (Persisted(i) /\ calls[c].op = "update"
                  /\ store[i].status = "hibernated")
               => store'[i].status # "active"]_vars

\* ------------------------------------------ optimization/cost_optimizer.py
\* The thread that runs the optimizer calls the deployment service as caller a.
Optimizer == "a"

\* Quantities (vCPU, Gi) are counted in thousandths; texts are generated for
\* quantities up to MaxQuantity.
MaxQuantity == 1000

\* str(x) of a float: the shortest decimal text, "1.0", "0.25", "0.375".
FloatText(x) ==
  LET f == x % 1000
      d1 == f \div 100
      d2 == (f \div 10) % 10
      d3 == f % 10
  IN ToString(x \div 1000) \o "." \o ToString(d1) \o
       (IF d2 = 0 /\ d3 = 0 THEN ""
        ELSE ToString(d2) \o (IF d3 = 0 THEN "" ELSE ToString(d3)))

FloatTexts == [x \in 0..MaxQuantity |-> FloatText(x)]

ValueErrorText == "could not convert string to float"

\* float(s) accepts a decimal or an integer text and raises ValueError for
\* any other text ("100m", "128M").
CanFloat(s) ==
  \/ \E x \in 0..MaxQuantity : FloatTexts[x] = s
  \/ \E n \in 0..(MaxQuantity \div 1000) : ToString(n) = s

\* float(s) for a text it accepts.
Float(s) ==
  IF \E x \in 0..MaxQuantity : FloatTexts[x] = s
  THEN CHOOSE x \in 0..MaxQuantity : FloatTexts[x] = s
  ELSE 1000 * (CHOOSE n \in 0..(MaxQuantity \div 1000) : ToString(n) = s)

\* s.rstrip(chars): trailing characters that belong to chars are removed.
RECURSIVE RStrip(_, _)
RStrip(s, chars) ==
  IF Len(s) > 0 /\ SubSeq(s, Len(s), Len(s)) \in chars
  THEN RStrip(SubSeq(s, 1, Len(s) - 1), chars)
  ELSE s

\* float(resource_requirements.cpu), float(memory.rstrip("Gi"))
CpuText(d) == d.resource_requirements.cpu
MemoryText(d) == RStrip(d.resource_requirements.memory, {"G", "i"})
CurrentCpu(d) == Float(CpuText(d))
CurrentMemory(d) == Float(MemoryText(d))

\* The two conversions at the head of the sizing computation succeed.
QuantitiesParse(d) == CanFloat(CpuText(d)) /\ CanFloat(MemoryText(d))

MinCpu == 250
MinMemory == 500
OverProvisionedBelow == 30

Max(a, b) == IF a >= b THEN a ELSE b

ShrinkWithoutFloor(floor, current) == (current * 3) \div 4

\* max(floor, current * 0.75), rounded down to a thousandth.
Shrink(floor, current) == Max(floor, (current * 3) \div 4)

\* The resource_requirements dictionary the sizing check passes to
\* update_deployment: cpu and memory as texts, gpu and timeout passed through.
SizedResources(d, new_cpu, new_memory) ==
  [cpu |-> FloatText(new_cpu), memory |-> FloatText(new_memory) \o "Gi",
   gpu |-> d.resource_requirements.gpu,
   timeout |-> d.resource_requirements.timeout]

\* ((before - after) / before) * 100
SavingsPercentage(before, after) == ((before - after) * 100) \div before

\* _estimate_hibernation_savings raises ValueError for a kubernetes
\* deployment whose cpu, memory or gpu text does not parse.
EstimateRaises(d) ==
  /\ d.deployment_type = "kubernetes"
  /\ \/ ~QuantitiesParse(d)
     \/ /\ d.resource_requirements.gpu # None
        /\ ~CanFloat(d.resource_requirements.gpu)

\* _estimate_hibernation_savings: for a kubernetes deployment a linear model
\* over the parsed cpu, memory and gpu quantities.
EstimateHibernationSavings(d) ==
  IF d.deployment_type = "kubernetes"
  THEN CurrentCpu(d) * 30 + CurrentMemory(d) * 5
         + (IF d.resource_requirements.gpu = None THEN 0
            ELSE Float(d.resource_requirements.gpu) * 300)
  ELSE 0

ErrorResultAsOptimal(text) == [status |-> "optimal", reason |-> text]

\* The except block of a check: {"status": "error", "reason": str(e)}.
ErrorResult(text) == [status |-> "error", reason |-> text]

\* Deployments the optimizer meets: requests as the API accepts them
\* (resource texts, a policy with idle timeout and arbitrage switch).
OptResources ==
  [cpu |-> "0.4", memory |-> "0.8Gi", gpu |-> None, timeout |-> 30]
SmallResources ==
  [cpu |-> "0.2", memory |-> "0.4Gi", gpu |-> None, timeout |-> 30]
MilliResources ==
  [cpu |-> "100m", memory |-> "128Mi", gpu |-> None, timeout |-> 30]

OptPolicy ==
  [use_spot_instances |-> TRUE, hibernation_enabled |-> TRUE,
   hibernation_idle_timeout |-> 2, multi_cloud_enabled |-> TRUE]
SingleCloudPolicy ==
  [use_spot_instances |-> TRUE, hibernation_enabled |-> TRUE,
   hibernation_idle_timeout |-> 2, multi_cloud_enabled |-> FALSE]
ApiDefaultPolicy ==
  [use_spot_instances |-> FALSE, hibernation_enabled |-> FALSE,
   hibernation_idle_timeout |-> 1800, multi_cloud_enabled |-> FALSE]

KubernetesOptArgs ==
  [deployment_type |-> "kubernetes", resource_requirements |-> OptResources,
   scaling_policy |-> NotSupplied, cost_optimization_policy |-> OptPolicy,
   metadata |-> NotSupplied]
KubernetesSmallArgs ==
  [deployment_type |-> "kubernetes", resource_requirements |-> SmallResources,
   scaling_policy |-> NotSupplied,
   cost_optimization_policy |-> ApiDefaultPolicy, metadata |-> OwnerMeta]
ServerlessMilliArgs ==
  [deployment_type |-> "serverless", resource_requirements |-> MilliResources,
   scaling_policy |-> NotSupplied, cost_optimization_policy |-> OptPolicy,
   metadata |-> NotSupplied]
KubernetesMilliArgs ==
  [deployment_type |-> "kubernetes", resource_requirements |-> MilliResources,
   scaling_policy |-> NotSupplied,
   cost_optimization_policy |-> SingleCloudPolicy, metadata |-> NotSupplied]

OptDeployArgs ==
  {KubernetesOptArgs, KubernetesSmallArgs, ServerlessMilliArgs,
   KubernetesMilliArgs}

\* Times, relative to the optimizer's start at 0, at which the deployments
\* were requested; a deploy stamps created_at and last_active_at with it.
StartTimes == {-3, -2}

OptEndpoint == "https://model.example.com"

\* Persisted records of deployments that were deployed, then hibernated or
\* failed in an update.
ActiveRecord(id, args, t) == ToDict(DeployedAt(id, args, OptEndpoint, t))
HibernatedRecord(id, args, t) ==
  [ActiveRecord(id, args, t) EXCEPT !.status = "hibernated",
                                    !.updated_at = t + 2]
FailedRecord(id, args, t) ==
  ToDict(OnFailure(FromDict(ActiveRecord(id, args, t), t + 2),
                   "quota exceeded", t + 2))

FirstRecords ==
  { ActiveRecord(1, args, t) : args \in OptDeployArgs, t \in StartTimes }
  \cup {HibernatedRecord(1, KubernetesOptArgs, -3),
        FailedRecord(1, KubernetesOptArgs, -3)}

\* The optimizer starts on one deployment.
InitOpt ==
  \E r1 \in FirstRecords :
    /\ store = [i \in Ids |-> IF i = 1 THEN r1 ELSE NoRecord]
    /\ now = 0
    /\ created = 1
    /\ calls = [c \in Callers |-> Idle]
    /\ last = NoOp
    /\ beforeHibernate = [i \in Ids |-> NoRecord]
    /\ opt = OptIdle
    /\ batch = BatchIdle
    /\ ExtIdle

BatchFirstRecords ==
  {NoRecord, ActiveRecord(1, ServerlessMilliArgs, -3),
   ActiveRecord(1, KubernetesSmallArgs, -3)}

BatchSecondRecords ==
  {NoRecord, ActiveRecord(2, ServerlessMilliArgs, -3),
   HibernatedRecord(2, KubernetesOptArgs, -3)}

\* The batch starts on up to two deployments.
InitBatch ==
  \E r1 \in BatchFirstRecords, r2 \in BatchSecondRecords :
    /\ store = [i \in Ids |-> IF i = 1 THEN r1 ELSE IF i = 2 THEN r2
                                                 ELSE NoRecord]
    /\ now = 0
    /\ created = 2
    /\ calls = [c \in Callers |-> Idle]
    /\ last = NoOp
    /\ beforeHibernate = [i \in Ids |-> NoRecord]
    /\ opt = OptIdle
    /\ batch = BatchIdle
    /\ ExtIdle

\* What _check_spot_pricing, _get_resource_utilization and
\* _get_multi_cloud_pricing may answer.
SpotPricings ==
  { [spot_available |-> TRUE, spot_price |-> 3, on_demand_price |-> 10],
    [spot_available |-> TRUE, spot_price |-> 10, on_demand_price |-> 10],
    [spot_available |-> FALSE, spot_price |-> 3, on_demand_price |-> 10] }

Utilizations == {0, 30}

Quote(provider, price, region) ==
  [provider |-> provider, price |-> price, region |-> region]

\* Price dictionaries in their iteration order.
PricingTables ==
  { <<Quote("aws", 10, "us-east-1"), Quote("gcp", 8, "us-central1")>>,
    <<Quote("aws", 10, "us-east-1"), Quote("gcp", 9, "us-central1")>>,
    <<Quote("aws", 10, "us-east-1"), Quote("gcp", 10, "us-central1")>>,
    <<Quote("gcp", 19, "us-central1"), Quote("aws", 20, "us-east-1")>> }

\* dict.get(key, default)
Get(m, k, default) == IF k \in DOMAIN m THEN m[k] ELSE default

\* The order of the checks in optimize_deployment; the arbitrage check runs
\* only when the policy enables it.
NextPc(check, d) ==
  CASE check = "hibernation" -> "spot_instances"
    [] check = "spot_instances" -> "resource_sizing"
    [] check = "resource_sizing" ->
         IF d.cost_optimization_policy.multi_cloud_enabled
         THEN "multi_cloud_arbitrage" ELSE "done"
    [] OTHER -> "done"

\* results[check] = r, then the next check or, after the last one, the
\* results are saved and returned.
Advance(o, r) ==
  LET o1 == [o EXCEPT !.results = MetaUpdate(@, [k \in {o.check} |-> r]),
                      !.pending = NoRecord]
      np == NextPc(o.check, o.dep)
  IN IF np = "done"
     THEN [o1 EXCEPT !.pc = "done", !.check = "none", !.outcome = "completed"]
     ELSE [o1 EXCEPT !.pc = np, !.check = np]

\* An exception leaves optimize_deployment.
Raised(o, text) ==
  [o EXCEPT !.pc = "done", !.check = "none", !.outcome = "raised",
            !.error = text]

SkipPassNever(d) == FALSE

\* The pass is skipped for a deployment that is not active.
SkipPass(d) == d.status # "active"

\* optimize_deployment up to the first check.
StartPass(id) ==
  LET d == GetDeployment(id)
      o == [OptIdle EXCEPT !.id = id, !.pre = store[id], !.dep = d,
                           !.at = now]
  IN IF d = NoRecord THEN Raised(o, "Deployment not found")
     ELSE IF SkipPass(d)
     THEN [o EXCEPT !.pc = "done", !.outcome = "skipped",
                    !.results = [status |-> "skipped",
                                 reason |-> "Deployment is " \o d.status]]
     ELSE [o EXCEPT !.pc = "hibernation", !.check = "hibernation",
                    !.outcome = "running"]

OptimizeBegin(id) ==
  /\ opt.pc \in {"idle", "done"}
  /\ ~Busy(Optimizer)
  /\ opt' = StartPass(id)
  /\ UNCHANGED smVars

\* A check returns without calling the deployment service.
NoCall(r) == opt' = Advance(opt, r) /\ UNCHANGED smVars

\* A check has called the deployment service (the handler's first step is
\* conjoined): it waits for the deployer, or goes on at once when the
\* handler returned without reaching the deployer.
Begun(op, seen, okResult) ==
  LET o == [opt EXCEPT !.smcalls =
                          Append(@, [check |-> opt.check, op |-> op,
                                     status |-> StatusOf(store[opt.id])]),
                       !.seen = seen]
  IN opt' = IF calls'[Optimizer].pc = "try"
            THEN [o EXCEPT !.pc = "call", !.pending = okResult]
            ELSE Advance(o, okResult)

MetadataOnly(m) ==
  [resource_requirements |-> NotSupplied, scaling_policy |-> NotSupplied,
   cost_optimization_policy |-> NotSupplied, metadata |-> m]

ResourcesOnly(rr) ==
  [resource_requirements |-> rr, scaling_policy |-> NotSupplied,
   cost_optimization_policy |-> NotSupplied, metadata |-> NotSupplied]

IdleFromTimeout(idle_time, timeout) == idle_time >= timeout

\* if idle_time > hibernation_idle_timeout
IdleTooLong(idle_time, timeout) == idle_time > timeout

\* _check_hibernation
CheckHibernation ==
  /\ opt.pc = "hibernation"
  /\ LET d == opt.dep
         idle_time == now - d.last_active_at
         timeout == d.cost_optimization_policy.hibernation_idle_timeout
     IN IF ~d.cost_optimization_policy.hibernation_enabled
        THEN NoCall([status |-> "skipped", reason |-> "Hibernation not enabled"])
        ELSE IF IdleTooLong(idle_time, timeout)
        THEN /\ HibernateBegin(Optimizer, d.id)
             /\ Begun("hibernate", [idle_time |-> idle_time],
                      IF EstimateRaises(d) THEN ErrorResult(ValueErrorText)
                      ELSE [status |-> "hibernated",
                            idle_time_seconds |-> idle_time,
                            estimated_savings |->
                               EstimateHibernationSavings(d)])
        ELSE NoCall([status |-> "active", idle_time_seconds |-> idle_time,
                     hibernation_threshold_seconds |-> timeout])
  /\ UNCHANGED batch

SpotNotDearer(p) == p.spot_available /\ p.spot_price <= p.on_demand_price

\* if spot_available and spot_price < on_demand_price
SpotBeneficial(p) == p.spot_available /\ p.spot_price < p.on_demand_price

\* _check_spot_instances
CheckSpotInstances ==
  /\ opt.pc = "spot_instances"
  /\ LET d == opt.dep
     IN IF ~d.cost_optimization_policy.use_spot_instances
        THEN NoCall([status |-> "skipped",
                     reason |-> "Spot instances not enabled"])
        ELSE IF d.deployment_type = "serverless"
        THEN NoCall([status |-> "skipped",
                     reason |-> "Not applicable for serverless deployments"])
        ELSE IF Get(d.metadata, "using_spot_instances", FALSE)
        THEN NoCall([status |-> "already_optimized",
                     reason |-> "Already using spot instances"])
        ELSE \E p \in SpotPricings :
               IF SpotBeneficial(p)
               THEN /\ UpdateBegin(Optimizer, d.id,
                         MetadataOnly([k \in {"using_spot_instances",
                                              "spot_price"} |->
                                         IF k = "spot_price" THEN p.spot_price
                                         ELSE TRUE]))
                    /\ Begun("update", p,
                             [status |-> "converted",
                              spot_price |-> p.spot_price,
                              on_demand_price |-> p.on_demand_price,
                              savings_percentage |->
                                 SavingsPercentage(p.on_demand_price,
                                                   p.spot_price)])
               ELSE NoCall([status |-> "not_beneficial",
                            spot_available |-> p.spot_available,
                            spot_price |-> IF p.spot_available
                                           THEN p.spot_price ELSE None,
                            on_demand_price |-> p.on_demand_price])
  /\ UNCHANGED batch

\* utilization < 30
OverProvisioned(utilization) == utilization < OverProvisionedBelow

\* _check_resource_sizing
CheckResourceSizing ==
  /\ opt.pc = "resource_sizing"
  /\ \E cpu_utilization \in Utilizations, memory_utilization \in Utilizations :
       LET d == opt.dep
           cpu_over_provisioned == OverProvisioned(cpu_utilization)
           memory_over_provisioned == OverProvisioned(memory_utilization)
           current_cpu == CurrentCpu(d)
           current_memory == CurrentMemory(d)
           new_cpu == IF cpu_over_provisioned THEN Shrink(MinCpu, current_cpu)
                      ELSE current_cpu
           new_memory == IF memory_over_provisioned
                         THEN Shrink(MinMemory, current_memory)
                         ELSE current_memory
           seen == [cpu_utilization |-> cpu_utilization,
                    memory_utilization |-> memory_utilization]
       IN IF cpu_over_provisioned \/ memory_over_provisioned
          THEN IF ~QuantitiesParse(d)
               THEN /\ opt' = Raised([opt EXCEPT !.seen = seen], ValueErrorText)
                    /\ UNCHANGED smVars
               ELSE /\ UpdateBegin(Optimizer, d.id,
                         ResourcesOnly(SizedResources(d, new_cpu, new_memory)))
                    /\ Begun("update", seen,
                         [status |-> "resized",
                          cpu |-> [before |-> current_cpu, after |-> new_cpu,
                                   utilization |-> cpu_utilization,
                                   savings_percentage |->
                                      IF cpu_over_provisioned
                                      THEN SavingsPercentage(current_cpu, new_cpu)
                                      ELSE 0],
                          memory |-> [before |-> current_memory,
                                      after |-> new_memory,
                                      utilization |-> memory_utilization,
                                      savings_percentage |->
                                         IF memory_over_provisioned
                                         THEN SavingsPercentage(current_memory,
                                                                new_memory)
                                         ELSE 0]])
          ELSE NoCall([status |-> "optimal",
                       cpu_utilization |-> cpu_utilization,
                       memory_utilization |-> memory_utilization])
  /\ UNCHANGED batch

\* min(pricing_data, key=price): the first entry, in iteration order, with
\* the least price.
Cheapest(table) ==
  table[CHOOSE i \in DOMAIN table :
          /\ \A j \in DOMAIN table : table[i].price <= table[j].price
          /\ \A j \in DOMAIN table :
               table[j].price = table[i].price => i <= j]

\* pricing_data[provider]
QuoteOf(table, provider) ==
  table[CHOOSE i \in DOMAIN table : table[i].provider = provider]

MigrateWhenNotDearer(cheapest, current_provider, current_price) ==
  /\ cheapest.provider # current_provider
  /\ cheapest.price * 10 <= current_price * 9

\* cheapest_provider != current_provider and
\* cheapest_price < current_price * 0.9
Migrate(cheapest, current_provider, current_price) ==
  /\ cheapest.provider # current_provider
  /\ cheapest.price * 10 < current_price * 9

\* _check_multi_cloud_arbitrage
CheckMultiCloudArbitrage ==
  /\ opt.pc = "multi_cloud_arbitrage"
  /\ \E pricing_data \in PricingTables :
       LET d == opt.dep
           current_provider == Get(d.metadata, "cloud_provider", "aws")
           current_region == Get(d.metadata, "cloud_region", "us-east-1")
           cheapest == Cheapest(pricing_data)
           current == QuoteOf(pricing_data, current_provider)
           seen == [pricing_data |-> pricing_data,
                    current_provider |-> current_provider]
       IN IF Migrate(cheapest, current_provider, current.price)
          THEN /\ UpdateBegin(Optimizer, d.id,
                    MetadataOnly([k \in {"cloud_provider", "cloud_region"} |->
                                    IF k = "cloud_provider"
                                    THEN cheapest.provider
                                    ELSE cheapest.region]))
               /\ Begun("update", seen,
                    [status |-> "migrated",
                     from_provider |-> current_provider,
                     to_provider |-> cheapest.provider,
                     from_region |-> current_region,
                     to_region |-> cheapest.region,
                     from_price |-> current.price,
                     to_price |-> cheapest.price,
                     savings_percentage |->
                        SavingsPercentage(current.price, cheapest.price)])
          ELSE /\ opt' = Advance([opt EXCEPT !.seen = seen],
                                 [status |-> "optimal",
                                  current_provider |-> current_provider,
                                  current_region |-> current_region,
                                  current_price |-> current.price,
                                  cheapest_provider |-> cheapest.provider,
                                  cheapest_price |-> cheapest.price])
               /\ UNCHANGED smVars
  /\ UNCHANGED batch

\* The handler a check called returned: the check reports its outcome.
CallReturns ==
  /\ opt.pc = "call"
  /\ HibernateOk(Optimizer) \/ UpdateOk(Optimizer)
  /\ opt' = Advance(opt, opt.pending)
  /\ UNCHANGED batch

\* The handler a check called raised the deployer's error: the check's
\* except block reports it.
CallRaises ==
  /\ opt.pc = "call"
  /\ \E text \in ErrTexts :
       /\ ProvisionerRaises(Optimizer, text)
       /\ opt' = Advance(opt, ErrorResult(text))
  /\ UNCHANGED batch

\* optimize_deployment called on its own.
OptimizeDeployment(id) ==
  /\ batch.pc # "running"
  /\ OptimizeBegin(id)
  /\ UNCHANGED batch

\* list_deployments: the persisted records in directory order.
Orderings(S) ==
  { q \in [1..Cardinality(S) -> S] :
      \A i, j \in 1..Cardinality(S) : i # j => q[i] # q[j] }

\* optimize_all_deployments up to the loop.
BatchBegin ==
  /\ batch.pc # "running"
  /\ opt.pc \in {"idle", "done"}
  /\ ~Busy(Optimizer)
  /\ LET listed == {i \in Ids : GetDeployment(i) # NoRecord}
     IN \E todo \in Orderings(listed) :
          batch' = [pc |-> IF listed = {} THEN "done" ELSE "running",
                    todo |-> todo, listed |-> listed, current |-> 0,
                    results |-> NoResults]
  /\ UNCHANGED <<smVars, opt>>

\* The loop body calls optimize_deployment for the next deployment.
BatchOptimize ==
  /\ batch.pc = "running"
  /\ batch.current = 0
  /\ batch.todo # <<>>
  /\ OptimizeBegin(Head(batch.todo))
  /\ batch' = [batch EXCEPT !.current = Head(batch.todo),
                            !.todo = Tail(batch.todo)]

CapturedDropsErrors(o, results) ==
  IF o.outcome = "raised" THEN results
  ELSE [i \in (DOMAIN results) \cup {o.id} |->
          IF i = o.id THEN o.results ELSE results[i]]

\* results[deployment.id] = result, or {"error": str(e)} in the except block.
Captured(o, results) ==
  [i \in (DOMAIN results) \cup {o.id} |->
     IF i = o.id
     THEN IF o.outcome = "raised" THEN [error |-> o.error] ELSE o.results
     ELSE results[i]]

\* optimize_deployment returned or raised inside the loop; after the last
\* deployment the results are returned.
BatchCapture ==
  /\ batch.pc = "running"
  /\ batch.current # 0
  /\ opt.pc = "done"
  /\ batch' = [batch EXCEPT !.results = Captured(opt, @),
                            !.current = 0,
                            !.pc = IF batch.todo = <<>> THEN "done"
                                   ELSE "running"]
  /\ UNCHANGED <<smVars, opt>>

Checks ==
  \/ CheckHibernation
  \/ CheckSpotInstances
  \/ CheckResourceSizing
  \/ CheckMultiCloudArbitrage
  \/ CallReturns
  \/ CallRaises

OptNext ==
  ((\E id \in Ids : OptimizeDeployment(id)) \/ Checks) /\ UNCHANGED extVars

SpecOpt == InitOpt /\ [][OptNext]_vars

BatchNext ==
  (BatchBegin \/ BatchOptimize \/ BatchCapture \/ Checks)
  /\ UNCHANGED extVars

SpecBatch == InitBatch /\ [][BatchNext]_vars

\* ------------------------------------------------ optimizer properties
CheckNames ==
  {"hibernation", "spot_instances", "resource_sizing", "multi_cloud_arbitrage"}

PassDone == opt.pc = "done"

\* C14: an optimizer pass on a deployment whose status is not active returns
\* status "skipped", runs none of the four checks, calls neither the
\* deployment service nor a provisioner and leaves the record unchanged.
C14_SkippedPassIsNoOp ==
  /\ []((opt.pc # "idle" /\ opt.pre # NoRecord /\ opt.pre.status # "active")
        => /\ PassDone
           /\ opt.outcome = "skipped"
           /\ opt.results.status = "skipped"
           /\ (DOMAIN opt.results) \cap CheckNames = {}
           /\ opt.smcalls = <<>>
           /\ ~Busy(Optimizer)
           /\ store[opt.id] = opt.pre)
  /\ [][(opt' # opt /\ opt'.pre # NoRecord /\ opt'.pre.status # "active")
          => UNCHANGED smVars]_vars

C14_Witness ==
  /\ PassDone /\ opt.outcome = "skipped"
  /\ opt.pre.status = "hibernated"
  /\ store[opt.id] = opt.pre

\* The idle time the pass observed exceeds the deployment's idle timeout.
IdleAtStart ==
  /\ opt.pre.status = "active"
  /\ opt.pre.cost_optimization_policy.hibernation_enabled
  /\ opt.at - opt.pre.last_active_at
       > opt.pre.cost_optimization_policy.hibernation_idle_timeout

NoCheckFailed ==
  \A k \in DOMAIN opt.results : opt.results[k].status # "error"

\* C15: for an active deployment with hibernation enabled whose idle time
\* exceeds its idle timeout, a complete optimizer pass in which no check
\* reports an error ends with the persisted status hibernated and the
\* hibernation outcome "hibernated", whatever prices and utilizations the
\* other checks see.
C15_IdlePassHibernates ==
  (PassDone /\ opt.outcome = "completed" /\ IdleAtStart /\ NoCheckFailed)
  => /\ store[opt.id].status = "hibernated"
     /\ opt.results["hibernation"].status = "hibernated"

\* C16: every check re-validates the status before acting: the spot, sizing
\* and arbitrage checks call the deployment service only while the persisted
\* status is active, so once an earlier check of the pass has left the
\* deployment hibernated or failed no later check changes it.
C16_ChecksRevalidateStatus ==
  \A k \in 1..Len(opt.smcalls) :
    opt.smcalls[k].check # "hibernation" => opt.smcalls[k].status = "active"

\* The entries a pass that returns normally has produced.
ExpectedChecks(d) ==
  IF d.cost_optimization_policy.multi_cloud_enabled THEN CheckNames
  ELSE CheckNames \ {"multi_cloud_arbitrage"}

Range(q) == {q[i] : i \in DOMAIN q}

\* An entry of the batch result: the captured exception, the skipped pass
\* or the outcomes of the checks.
BatchEntryOk(r) ==
  \/ DOMAIN r = {"error"}
  \/ DOMAIN r = {"status", "reason"} /\ r.status = "skipped"
  \/ DOMAIN r \in {CheckNames, CheckNames \ {"multi_cloud_arbitrage"}}

\* C18: a batch pass returns exactly one outcome entry per listed
\* deployment; an exception raised while one deployment is optimized becomes
\* that deployment's entry and the loop goes on with the other deployments.
C18_BatchCapturesEveryDeployment ==
  /\ [](/\ batch.pc = "running" =>
             /\ batch.listed = (DOMAIN batch.results) \cup Range(batch.todo)
                                 \cup ({batch.current} \ {0})
             /\ (DOMAIN batch.results) \cap Range(batch.todo) = {}
             /\ batch.current
                  \notin (DOMAIN batch.results) \cup Range(batch.todo)
        /\ batch.pc = "done" =>
             /\ DOMAIN batch.results = batch.listed
             /\ \A i \in batch.listed : BatchEntryOk(batch.results[i]))
  /\ [][(batch.current # 0 /\ batch'.current = 0)
          => /\ batch.current \in DOMAIN batch'.results
             /\ batch'.results[batch.current] =
                  IF opt.outcome = "raised" THEN [error |-> opt.error]
                  ELSE opt.results
             /\ \A i \in DOMAIN batch.results :
                  batch'.results[i] = batch.results[i]
             /\ batch'.todo = batch.todo]_vars

C18_Witness ==
  /\ batch.pc = "done"
  /\ batch.listed = {1, 2}
  /\ batch.results[1] = [error |-> ValueErrorText]
  /\ opt.id = 2
  /\ "hibernation" \in DOMAIN batch.results[2]
  /\ batch.results[2]["hibernation"].status = "hibernated"

\* The quantities the sizing check is writing: the resource_requirements
\* argument of the update_deployment call it has made.
SizingWrites == opt.pc = "call" /\ opt.check = "resource_sizing"
WrittenCpu == Float(calls[Optimizer].args.resource_requirements.cpu)
WrittenMemory ==
  Float(RStrip(calls[Optimizer].args.resource_requirements.memory, {"G", "i"}))

RecordedProvider(r) == Get(r.metadata, "cloud_provider", "aws")

\* C20: the arbitrage check changes the recorded provider if and only if
\* the cheapest provider differs from the current one and its price is at
\* most 0.9 times the current price; at exactly 0.9 times it migrates.
C20_MigratesAtTenPercent ==
  [][(opt.pc = "multi_cloud_arbitrage" /\ opt' # opt)
       => LET table == opt'.seen.pricing_data
              current == opt'.seen.current_provider
          IN (RecordedProvider(store'[opt.id]) # RecordedProvider(store[opt.id]))
               <=> MigrateWhenNotDearer(Cheapest(table), current,
                                        QuoteOf(table, current).price)]_vars

\* The arbitrage check of the pass saw provider aws at 10 and gcp at 8 for
\* a deployment recorded on aws.
SawTenAndEight ==
  /\ "multi_cloud_arbitrage" \in DOMAIN opt.results
  /\ opt.seen = [pricing_data |-> <<Quote("aws", 10, "us-east-1"),
                                    Quote("gcp", 8, "us-central1")>>,
                 current_provider |-> "aws"]

\* C21: with provider aws priced at 10 and gcp at 8, one optimizer pass on
\* an active deployment recorded on aws with arbitrage enabled reports the
\* arbitrage outcome "arbitrage_opportunity" with savings of 20% and leaves
\* the persisted cloud_provider equal to gcp.
C21_ReportsOpportunityAndMigrates ==
  (PassDone /\ opt.outcome = "completed" /\ SawTenAndEight /\ NoCheckFailed)
  => /\ opt.results["multi_cloud_arbitrage"].status = "arbitrage_opportunity"
     /\ opt.results["multi_cloud_arbitrage"].savings_percentage = 20
     /\ RecordedProvider(store[opt.id]) = "gcp"

\* price_check_interval, in ticks of the clock.
PriceCheckInterval == 2

\* The successive values of random.uniform(0.95, 1.05) in one refresh, in
\* percent: one draw for each unit price of the table. random.seed(
\* int(time.time())) makes the sequence a function of the time of the
\* refresh.
RECURSIVE RegionsBefore(_, _)
RegionsBefore(providers, i) ==
  IF i = 1 THEN 0
  ELSE RegionsBefore(providers, i - 1) + Len(providers[i - 1].regions)

Draws == 3 * RegionsBefore(InitialProviders, Len(InitialProviders) + 1)

UniformDraws(t) ==
  IF t % 2 = 0 THEN [k \in 1..Draws |-> 95]
  ELSE [k \in 1..Draws |-> IF k % 2 = 1 THEN 95 ELSE 105]

\* price * random.uniform(0.95, 1.05)
Scale(price, percent) == (price * percent) \div 100

\* The loops of _update_pricing_data: every unit price of every region of
\* every provider is multiplied by the next draw.
Perturbed(providers, draws) ==
  [i \in DOMAIN providers |->
     [providers[i] EXCEPT !.regions =
        [j \in DOMAIN providers[i].regions |->
           LET k == 3 * (RegionsBefore(providers, i) + j - 1)
               r == providers[i].regions[j]
           IN [r EXCEPT !.cpu = Scale(@, draws[k + 1]),
                        !.memory = Scale(@, draws[k + 2]),
                        !.gpu = Scale(@, draws[k + 3])]]]]

\* _update_pricing_data on the loaded price_data, before it is saved.
Refreshed(price_data, draws, t) ==
  [price_data EXCEPT !.providers = Perturbed(@, draws), !.last_update = t]

NeedUpdateWhenNotYounger(price_data, t) ==
  \/ price_data.last_update = NeverUpdated
  \/ t - price_data.last_update >= PriceCheckInterval

\* need_update of _update_pricing_data_if_needed.
NeedUpdate(price_data, t) ==
  \/ price_data.last_update = NeverUpdated
  \/ t - price_data.last_update > PriceCheckInterval

\* float(gpu) when a gpu is requested, else 0.
GpuQuantity(d) ==
  IF d.resource_requirements.gpu = None THEN 0
  ELSE Float(d.resource_requirements.gpu)

\* The three conversions at the head of _get_pricing_data succeed.
ShapeParses(d) ==
  /\ QuantitiesParse(d)
  /\ d.resource_requirements.gpu # None => CanFloat(d.resource_requirements.gpu)

\* cpu * cpu_price + memory * memory_price + gpu * gpu_price
TotalPrice(cpu, memory, gpu, r) ==
  cpu * r.cpu + memory * r.memory + gpu * r.gpu

CheapestRegionLastOnTies(cpu, memory, gpu, regions) ==
  LET total == [j \in DOMAIN regions |->
                  TotalPrice(cpu, memory, gpu, regions[j])]
  IN regions[CHOOSE j \in DOMAIN regions :
               /\ \A k \in DOMAIN regions : total[j] <= total[k]
               /\ \A k \in DOMAIN regions : total[k] = total[j] => k <= j]

\* The inner loop of _get_pricing_data: the first region, in the order of
\* the table, whose total price is below that of every region before it
\* and not above that of any region after it.
CheapestRegion(cpu, memory, gpu, regions) ==
  LET total == [j \in DOMAIN regions |->
                  TotalPrice(cpu, memory, gpu, regions[j])]
  IN regions[CHOOSE j \in DOMAIN regions :
               /\ \A k \in DOMAIN regions : total[j] <= total[k]
               /\ \A k \in DOMAIN regions : total[k] = total[j] => j <= k]

\* _get_pricing_data: one entry per provider, in the order of the table.
PricingData(d, price_data) ==
  LET cpu == CurrentCpu(d)
      memory == CurrentMemory(d)
      gpu == GpuQuantity(d)
      entry(i) ==
        LET r == CheapestRegion(cpu, memory, gpu,
                                price_data.providers[i].regions)
        IN [provider |-> price_data.providers[i].provider,
            region |-> r.region,
            price |-> TotalPrice(cpu, memory, gpu, r),
            cpu_price |-> r.cpu, memory_price |-> r.memory,
            gpu_price |-> r.gpu]
  IN [i \in DOMAIN price_data.providers |-> entry(i)]

JsonErrorText == "Expecting value: line 1 column 1 (char 0)"

\* The local variables of check_deployment_arbitrage and migrate_deployment.
\* The last read of the table that caller c completed, kept for the
\* properties that compare two successive reads.
LastRead(c) ==
  LET f == pricers[c]
  IN IF f.pc = "idle" THEN NoRecord
     ELSE IF f.seen # NoRecord
     THEN [op |-> f.op, read_at |-> f.read_at, refreshed |-> f.refreshed,
           seen |-> f.seen]
     ELSE f.prev

PricerStart(c, op, id, d) ==
  [pc |-> "start", op |-> op, id |-> id, dep |-> d, price_data |-> NoRecord,
   loaded |-> NoRecord, need_update |-> FALSE, decided_at |-> 0,
   refreshed |-> FALSE, seen |-> NoRecord, read_at |-> 0,
   result |-> NoRecord, outcome |-> "running", error |-> None,
   target |-> NoRecord, prev |-> LastRead(c)]

PricerFree(c) == pricers[c].pc \in {"idle", "done"} /\ ~Busy(c)

PricerRaised(f, text) ==
  [f EXCEPT !.pc = "done", !.outcome = "raised", !.error = text]

PricerReturned(f, r) ==
  [f EXCEPT !.pc = "done", !.outcome = "returned", !.result = r]

SetPricer(c, f) == pricers' = [pricers EXCEPT ![c] = f]

\* What json.load returns for a complete file.
LoadedPriceTracking ==
  [last_update |-> price_file.last_update, providers |-> price_file.providers]

\* check_deployment_arbitrage up to _update_pricing_data_if_needed.
ArbitrageBegin(c, id) ==
  /\ PricerFree(c)
  /\ LET d == GetDeployment(id)
         f == PricerStart(c, "check", id, d)
     IN SetPricer(c,
          IF d = NoRecord THEN PricerRaised(f, "Deployment not found")
          ELSE IF d.status # "active"
          THEN PricerReturned(f, [status |-> "skipped",
                                  reason |-> "Deployment is " \o d.status])
          ELSE [f EXCEPT !.pc = "if_needed"])
  /\ UNCHANGED <<price_file, smVars>>

\* _update_pricing_data_if_needed: the file is loaded and its age decides.
UpdatePricingDataIfNeeded(c) ==
  /\ pricers[c].pc = "if_needed"
  /\ SetPricer(c,
       IF ~price_file.complete THEN PricerRaised(pricers[c], JsonErrorText)
       ELSE LET need == NeedUpdate(LoadedPriceTracking, now)
            IN [pricers[c] EXCEPT !.price_data = LoadedPriceTracking,
                                  !.loaded = LoadedPriceTracking,
                                  !.need_update = need,
                                  !.decided_at = now,
                                  !.pc = IF need THEN "update" ELSE "read"])
  /\ UNCHANGED <<price_file, smVars>>

\* _update_pricing_data up to the save: the loaded table is perturbed and
\* stamped in memory.
UpdatePricingData(c) ==
  /\ pricers[c].pc = "update"
  /\ SetPricer(c, [pricers[c] EXCEPT
                     !.price_data = Refreshed(@, UniformDraws(now), now),
                     !.pc = "save_open"])
  /\ UNCHANGED <<price_file, smVars>>

\* _save_price_tracking: open(path, "w") empties the file.
SavePriceTrackingOpen(c) ==
  /\ pricers[c].pc = "save_open"
  /\ price_file' = [complete |-> FALSE, last_update |-> NeverUpdated,
                    providers |-> <<>>]
  /\ SetPricer(c, [pricers[c] EXCEPT !.pc = "save_dump"])
  /\ UNCHANGED smVars

\* _save_price_tracking: json.dump has written the whole table.
SavePriceTrackingDump(c) ==
  /\ pricers[c].pc = "save_dump"
  /\ price_file' = [complete |-> TRUE,
                    last_update |-> pricers[c].price_data.last_update,
                    providers |-> pricers[c].price_data.providers]
  /\ SetPricer(c, [pricers[c] EXCEPT !.pc = "read", !.refreshed = TRUE])
  /\ UNCHANGED smVars

\* savings_percentage > 10
Significant(current_price, cheapest_price) ==
  (current_price - cheapest_price) * 100 > 10 * current_price

\* The decision of check_deployment_arbitrage on the quotes it read.
ArbitrageResult(d, pricing_data) ==
  LET current_provider == Get(d.metadata, "cloud_provider", "aws")
      current_region == Get(d.metadata, "cloud_region", "us-east-1")
      cheapest == Cheapest(pricing_data)
      current == QuoteOf(pricing_data, current_provider)
  IN IF cheapest.provider = current_provider
     THEN [status |-> "optimal", current_provider |-> current_provider,
           current_region |-> current_region,
           current_price |-> current.price, pricing_data |-> pricing_data]
     ELSE IF Significant(current.price, cheapest.price)
     THEN [status |-> "arbitrage_opportunity",
           current_provider |-> current_provider,
           current_region |-> current_region,
           recommended_provider |-> cheapest.provider,
           recommended_region |-> cheapest.region,
           current_price |-> current.price,
           recommended_price |-> cheapest.price,
           savings_percentage |->
              SavingsPercentage(current.price, cheapest.price),
           pricing_data |-> pricing_data]
     ELSE [status |-> "savings_insufficient",
           current_provider |-> current_provider,
           current_region |-> current_region,
           cheapest_provider |-> cheapest.provider,
           cheapest_region |-> cheapest.region,
           current_price |-> current.price,
           cheapest_price |-> cheapest.price,
           savings_percentage |->
              SavingsPercentage(current.price, cheapest.price),
           pricing_data |-> pricing_data]

\* _get_pricing_data and the decision of check_deployment_arbitrage.
GetPricingData(c) ==
  /\ pricers[c].pc = "read"
  /\ LET f == pricers[c]
     IN SetPricer(c,
          IF ~price_file.complete THEN PricerRaised(f, JsonErrorText)
          ELSE IF ~ShapeParses(f.dep) THEN PricerRaised(f, ValueErrorText)
          ELSE PricerReturned([f EXCEPT !.seen = LoadedPriceTracking,
                                        !.read_at = now],
                 ArbitrageResult(f.dep,
                                 PricingData(f.dep, LoadedPriceTracking))))
  /\ UNCHANGED <<price_file, smVars>>

\* Targets callers pass to migrate_deployment.
MigrateTargets ==
  { [provider |-> "gcp", region |-> "us-central1"],
    [provider |-> "aws", region |-> "us-east-1"] }

\* The metadata migrate_deployment passes to update_deployment.
MigrationMetadata(target, current_provider, current_region, t) ==
  [k \in {"cloud_provider", "cloud_region", "previous_provider",
          "previous_region", "migration_time"} |->
     CASE k = "cloud_provider" -> target.provider
       [] k = "cloud_region" -> target.region
       [] k = "previous_provider" -> current_provider
       [] k = "previous_region" -> current_region
       [] OTHER -> t]

\* migrate_deployment up to the deployer call of update_deployment.
MigrateBegin(c, id, target) ==
  /\ PricerFree(c)
  /\ LET d == GetDeployment(id)
         f == [PricerStart(c, "migrate", id, d) EXCEPT !.target = target]
         current_provider == Get(d.metadata, "cloud_provider", "aws")
         current_region == Get(d.metadata, "cloud_region", "us-east-1")
     IN IF d = NoRecord
        THEN /\ SetPricer(c, PricerRaised(f, "Deployment not found"))
             /\ UNCHANGED smVars
        ELSE IF current_provider = target.provider
                /\ current_region = target.region
        THEN /\ SetPricer(c, PricerReturned(f,
                    [status |-> "skipped", reason |-> "Already deployed"]))
             /\ UNCHANGED smVars
        ELSE /\ UpdateBegin(c, id,
                  MetadataOnly(MigrationMetadata(target, current_provider,
                                                 current_region, now)))
             /\ SetPricer(c, [f EXCEPT !.pc = "call"])
  /\ UNCHANGED price_file

\* update_deployment returned to migrate_deployment.
MigrateUpdated(c) ==
  /\ pricers[c].pc = "call"
  /\ UpdateOk(c)
  /\ SetPricer(c, [pricers[c] EXCEPT !.pc = "compare"])
  /\ UNCHANGED price_file

\* update_deployment raised the deployer's error: the except block of
\* migrate_deployment reports it.
MigrateFailed(c) ==
  /\ pricers[c].pc = "call"
  /\ \E text \in ErrTexts :
       /\ ProvisionerRaises(c, text)
       /\ SetPricer(c, PricerReturned(pricers[c], ErrorResult(text)))
  /\ UNCHANGED price_file

\* migrate_deployment reads the table for its before/after comparison,
\* without _update_pricing_data_if_needed; an exception of the read is
\* reported by the except block.
MigrateCompare(c) ==
  /\ pricers[c].pc = "compare"
  /\ LET f == pricers[c]
         d == f.dep
         current_provider == Get(d.metadata, "cloud_provider", "aws")
         current_region == Get(d.metadata, "cloud_region", "us-east-1")
         pricing_data == PricingData(d, LoadedPriceTracking)
         current_price == QuoteOf(pricing_data, current_provider).price
         target_price == QuoteOf(pricing_data, f.target.provider).price
     IN SetPricer(c,
          IF ~price_file.complete
          THEN PricerReturned(f, ErrorResult(JsonErrorText))
          ELSE IF ~ShapeParses(d)
          THEN PricerReturned(f, ErrorResult(ValueErrorText))
          ELSE PricerReturned([f EXCEPT !.seen = LoadedPriceTracking,
                                        !.read_at = now],
                 [status |-> "migrated", from_provider |-> current_provider,
                  to_provider |-> f.target.provider,
                  from_region |-> current_region,
                  to_region |-> f.target.region,
                  from_price |-> current_price, to_price |-> target_price,
                  savings_percentage |->
                     SavingsPercentage(current_price, target_price)]))
  /\ UNCHANGED <<price_file, smVars>>

\* Time passes between two calls.
PriceTick == Tick /\ UNCHANGED <<store, created, calls, last, beforeHibernate,
                                 price_file, pricers>>

tierVars == <<access_data, accessed, files, models, tierer>>
monVars == <<metrics_data, collected, monitor>>

PriceStep(c) ==
  \/ \E id \in Ids : ArbitrageBegin(c, id)
  \/ UpdatePricingDataIfNeeded(c)
  \/ UpdatePricingData(c)
  \/ SavePriceTrackingOpen(c)
  \/ SavePriceTrackingDump(c)
  \/ GetPricingData(c)
  \/ \E id \in Ids, target \in MigrateTargets : MigrateBegin(c, id, target)
  \/ MigrateUpdated(c)
  \/ MigrateFailed(c)
  \/ MigrateCompare(c)

\* Deployments the arbitrage service meets.
PriceRecords ==
  {ActiveRecord(1, KubernetesOptArgs, -3),
   ActiveRecord(1, KubernetesMilliArgs, -3),
   HibernatedRecord(1, KubernetesOptArgs, -3)}

\* The arbitrage service has been constructed: the table file holds the
\* initial prices and has never been refreshed.
InitPrice ==
  \E r1 \in PriceRecords :
    /\ store = [i \in Ids |-> IF i = 1 THEN r1 ELSE NoRecord]
    /\ now = 0
    /\ created = 1
    /\ calls = [c \in Callers |-> Idle]
    /\ last = NoOp
    /\ beforeHibernate = [i \in Ids |-> NoRecord]
    /\ opt = OptIdle
    /\ batch = BatchIdle
    /\ ExtIdle

PriceNext ==
  (PriceTick \/ \E c \in SeqCallers : PriceStep(c))
  /\ UNCHANGED <<opt, batch, tierVars, monVars>>

SpecPrice == InitPrice /\ [][PriceNext]_vars

\* ------------------------------------------------------------ claim C22
\* The frames of arbitrage checks that have read the table.
CheckReads ==
  {c \in Callers : /\ pricers[c].pc = "done"
                   /\ pricers[c].op = "check"
                   /\ pricers[c].seen # NoRecord}

\* The refresh check of caller c's call found a refresh due: the table had
\* never been refreshed, or strictly more than the interval had passed.
RefreshWasDue(c) ==
  \/ pricers[c].loaded.last_update = NeverUpdated
  \/ pricers[c].decided_at - pricers[c].loaded.last_update
       > PriceCheckInterval

\* Every unit price of every region of table `after` is the price of
\* `before` multiplied by a draw from [0.95, 1.05].
AllRegionsRecomputed(before, after) ==
  /\ Len(after.providers) = Len(before.providers)
  /\ \A i \in DOMAIN before.providers :
       /\ Len(after.providers[i].regions) = Len(before.providers[i].regions)
       /\ \A j \in DOMAIN before.providers[i].regions :
            LET old == before.providers[i].regions[j]
                new == after.providers[i].regions[j]
            IN /\ new.region = old.region
               /\ \E p \in {95, 105} : new.cpu = Scale(old.cpu, p)
               /\ \E p \in {95, 105} : new.memory = Scale(old.memory, p)
               /\ \E p \in {95, 105} : new.gpu = Scale(old.gpu, p)

\* C22, first half: a read of check_deployment_arbitrage refreshes the
\* table if and only if no refresh has ever occurred or the time since the
\* last refresh strictly exceeds the interval, and a refresh recomputes
\* every unit price of every region and stamps the table with a time
\* between the refresh check and the read.
RefreshPolicy ==
  \A c \in CheckReads :
    LET f == pricers[c]
    IN /\ f.refreshed <=> RefreshWasDue(c)
       /\ f.refreshed =>
            /\ AllRegionsRecomputed(f.loaded, f.seen)
            /\ f.decided_at <= f.seen.last_update
            /\ f.seen.last_update <= f.read_at
       /\ ~f.refreshed => f.seen = f.loaded

\* C22 as stated: the refresh policy, and two reads within one interval of
\* each other trigger at most one refresh and see the same table.
C22_ReadsWithinIntervalSeeSameTable ==
  /\ RefreshPolicy
  /\ \A c \in CheckReads :
       LET f == pricers[c]
       IN (f.prev # NoRecord /\ f.prev.op = "check"
           /\ f.read_at - f.prev.read_at <= PriceCheckInterval)
          => /\ ~(f.refreshed /\ f.prev.refreshed)
             /\ f.seen = f.prev.seen

\* C22 amended: the refresh policy holds for the reads of
\* check_deployment_arbitrage; a read whose refresh check is made no later
\* than one interval after the stamp of the table the previous read saw
\* triggers no refresh and sees that same table; the comparison read of
\* migrate_deployment never refreshes.
C22_RefreshWhenDueElseSameTable ==
  /\ RefreshPolicy
  /\ \A c \in CheckReads :
       LET f == pricers[c]
       IN (f.prev # NoRecord /\ f.prev.seen.last_update # NeverUpdated
           /\ f.decided_at - f.prev.seen.last_update <= PriceCheckInterval)
          => ~f.refreshed /\ f.seen = f.prev.seen
  /\ \A c \in Callers :
       (pricers[c].pc = "done" /\ pricers[c].op = "migrate")
          => ~pricers[c].refreshed

\* Two successive reads of check_deployment_arbitrage: the first refreshed
\* the table, the second came within the interval and saw the same
\* refreshed table.
C22_SecondReadReusesRefreshedTable ==
  \E c \in CheckReads :
    LET f == pricers[c]
    IN /\ f.prev # NoRecord /\ f.prev.op = "check" /\ f.prev.refreshed
       /\ f.decided_at > f.prev.read_at
       /\ f.decided_at - f.prev.seen.last_update <= PriceCheckInterval
       /\ ~f.refreshed
       /\ f.seen = f.prev.seen
       /\ f.seen.providers # InitialProviders

\* ------------------------------------------------------------ claim C23
\* Two callers use the arbitrage service at once: the service has no lock,
\* so the steps of their calls interleave.
PriceConcStep(c) ==
  \/ \E id \in Ids : ArbitrageBegin(c, id)
  \/ UpdatePricingDataIfNeeded(c)
  \/ UpdatePricingData(c)
  \/ SavePriceTrackingOpen(c)
  \/ SavePriceTrackingDump(c)
  \/ GetPricingData(c)

InitPriceConc ==
  /\ store = [i \in Ids |->
                IF i = 1 THEN ActiveRecord(1, KubernetesOptArgs, -3)
                ELSE NoRecord]
  /\ now = 0
  /\ created = 1
  /\ calls = [c \in Callers |-> Idle]
  /\ last = NoOp
  /\ beforeHibernate = [i \in Ids |-> NoRecord]
  /\ opt = OptIdle
  /\ batch = BatchIdle
  /\ ExtIdle

\* The span of time over which the two callers are followed.
MaxConcTime == 1

PriceConcTick == now < MaxConcTime /\ PriceTick

PriceConcNext ==
  (PriceConcTick \/ \E c \in Callers : PriceConcStep(c))
  /\ UNCHANGED <<opt, batch, tierVars, monVars>>

SpecPriceConc == InitPriceConc /\ [][PriceConcNext]_vars

\* Caller c has begun to write a refresh of the table it loaded.
Refreshing(c) ==
  /\ pricers[c].pc \in {"save_open", "save_dump", "read", "done"}
  /\ pricers[c].need_update

\* C23 as stated: no reader observes a truncated or partly written table,
\* and no two refreshes perturb the same version of the table.
C23_RefreshExcludesReadersAndWriters ==
  /\ \A c \in Callers :
       pricers[c].pc = "done" => pricers[c].error # JsonErrorText
  /\ \A c1, c2 \in Callers :
       (c1 # c2 /\ Refreshing(c1) /\ Refreshing(c2))
          => pricers[c1].loaded # pricers[c2].loaded

\* ----------------------------------------- optimization/storage_tiering.py
\* Ticks of the clock in one day: timedelta.days counts whole days.
DayLength == 2

\* (later - earlier).days
Days(earlier, later) == (later - earlier) \div DayLength

\* The thresholds of _get_access_pattern and the cap of record_model_access.
RareAfterDays == 30
InfrequentAfterDays == 7
MinHistory == 5
RecentDays == 7
FrequentFrom == 10
HistoryCap == 100

\* The directories of the tiers and of the model repository, as path
\* components.
HotStoragePath == <<"hot_storage">>
ColdStoragePath == <<"cold_storage">>
ArchiveStoragePath == <<"archive_storage">>
ModelsPath == <<"models">>

\* str.startswith, os.path.basename and os.path.join on paths.
StartsWith(path, prefix) ==
  Len(path) >= Len(prefix) /\ SubSeq(path, 1, Len(prefix)) = prefix
Basename(path) == path[Len(path)]
Join(dir, name) == Append(dir, name)

\* The key of a model or of an optimized model in the access data.
ModelKey(model_id, is_optimized) ==
  IF is_optimized THEN "optimized_" \o model_id ELSE model_id

KeptFromStart(history) ==
  IF Len(history) > HistoryCap THEN SubSeq(history, 1, HistoryCap)
  ELSE history

\* access_history[-100:] when the history is longer than 100.
Trimmed(history) ==
  IF Len(history) > HistoryCap
  THEN SubSeq(history, Len(history) - HistoryCap + 1, Len(history))
  ELSE history

\* The access data after record_model_access for key at time t.
Recorded(data, key, t) ==
  LET old == IF key \in DOMAIN data THEN data[key]
             ELSE [total_accesses |-> 0, last_access |-> NeverUpdated,
                   access_history |-> <<>>]
      new == [total_accesses |-> old.total_accesses + 1,
              last_access |-> t,
              access_history |-> Trimmed(Append(old.access_history, t))]
  IN [k \in DOMAIN data \cup {key} |-> IF k = key THEN new ELSE data[k]]

InfrequentFromSevenDays(days) == days >= InfrequentAfterDays

\* days_since_last_access > 7
InfrequentByAge(days) == days > InfrequentAfterDays

\* _get_access_pattern at time t.
GetAccessPattern(data, key, t) ==
  IF key \notin DOMAIN data THEN "rare"
  ELSE IF data[key].total_accesses = 0 THEN "rare"
  ELSE LET days_since_last_access == Days(data[key].last_access, t)
           access_history == data[key].access_history
           recent_accesses ==
             Cardinality({i \in DOMAIN access_history :
                            Days(access_history[i], t) <= RecentDays})
       IN IF days_since_last_access > RareAfterDays THEN "rare"
          ELSE IF InfrequentByAge(days_since_last_access) THEN "infrequent"
          ELSE IF Len(access_history) < MinHistory THEN "infrequent"
          ELSE IF recent_accesses >= FrequentFrom THEN "frequent"
          ELSE "infrequent"

\* _get_current_storage_tier
GetCurrentStorageTier(storage_path) ==
  IF StartsWith(storage_path, HotStoragePath) THEN "hot"
  ELSE IF StartsWith(storage_path, ColdStoragePath) THEN "cold"
  ELSE IF StartsWith(storage_path, ArchiveStoragePath) THEN "archive"
  ELSE "hot"

DetermineStorageTierColdWhenRare(access_pattern) ==
  IF access_pattern = "frequent" THEN "hot" ELSE "cold"

\* _determine_storage_tier
DetermineStorageTier(access_pattern) ==
  IF access_pattern = "frequent" THEN "hot"
  ELSE IF access_pattern = "infrequent" THEN "cold"
  ELSE "archive"

\* The target directory and the new path of _move_to_storage_tier.
TargetDir(target_tier) ==
  IF target_tier = "hot" THEN HotStoragePath
  ELSE IF target_tier = "cold" THEN ColdStoragePath
  ELSE ArchiveStoragePath
NewStoragePath(storage_path, target_tier) ==
  Join(TargetDir(target_tier), Basename(storage_path))

\* Models whose accesses are recorded, and how many calls are followed.
AccessModelIds == {"m1"}
MaxAccesses == 102
MaxOptimizedAccesses == 2

\* record_model_access: load, count, stamp, append, trim, save. Each call
\* reads a later utcnow than the call before it.
RecordModelAccess(model_id, is_optimized) ==
  LET model_key == ModelKey(model_id, is_optimized)
      calls_so_far == IF model_key \in DOMAIN accessed
                      THEN Len(accessed[model_key]) ELSE 0
  IN /\ calls_so_far < (IF is_optimized THEN MaxOptimizedAccesses
                        ELSE MaxAccesses)
     /\ access_data' = Recorded(access_data, model_key, now)
     /\ accessed' =
          [k \in DOMAIN accessed \cup {model_key} |->
             IF k = model_key
             THEN Append(IF k \in DOMAIN accessed THEN accessed[k] ELSE <<>>,
                         now)
             ELSE accessed[k]]
     /\ now' = now + 1
     /\ UNCHANGED <<store, created, calls, last, beforeHibernate, opt, batch,
                     price_file, pricers, files, models, tierer, monVars>>

\* The storage tiering service has been constructed: no access is
\* recorded.
InitAccess ==
  /\ store = [i \in Ids |-> NoRecord]
  /\ now = 0
  /\ created = 0
  /\ calls = [c \in Callers |-> Idle]
  /\ last = NoOp
  /\ beforeHibernate = [i \in Ids |-> NoRecord]
  /\ opt = OptIdle
  /\ batch = BatchIdle
  /\ ExtIdle

AccessNext ==
  \E model_id \in AccessModelIds, is_optimized \in BOOLEAN :
    RecordModelAccess(model_id, is_optimized)

SpecAccess == InitAccess /\ [][AccessNext]_vars

\* ------------------------------------------------------------ claim C26
Min(a, b) == IF a < b THEN a ELSE b

\* C26: after any sequence of record_model_access calls for a key, its
\* total_accesses is the number of calls, last_access is the time of the
\* latest call, and access_history holds at most 100 timestamps, which are
\* the most recent min(n, 100) calls in the order they were made.
C26_AccessRecordCountsAndKeepsLastHundred ==
  /\ DOMAIN access_data = DOMAIN accessed
  /\ \A key \in DOMAIN access_data :
       LET n == Len(accessed[key])
           kept == Min(n, HistoryCap)
       IN /\ n > 0
          /\ access_data[key].total_accesses = n
          /\ access_data[key].last_access = accessed[key][n]
          /\ Len(access_data[key].access_history) <= HistoryCap
          /\ access_data[key].access_history =
               SubSeq(accessed[key], n - kept + 1, n)

\* A key accessed more than 100 times: its history holds the latest 100
\* calls and has dropped the earliest ones, while another key holds its own.
C26_HistoryDroppedEarliestAccess ==
  /\ "m1" \in DOMAIN accessed
  /\ Len(accessed["m1"]) = HistoryCap + 2
  /\ Len(access_data["m1"].access_history) = HistoryCap
  /\ access_data["m1"].access_history[1] = accessed["m1"][3]
  /\ "optimized_m1" \in DOMAIN accessed
  /\ access_data["optimized_m1"].total_accesses = 1

\* Models the tiering service is asked about ("m0" was never saved), the
\* file names they were saved under, the accesses recorded before the
\* service is asked, and the times at which it is asked: 2, 3, 7.5, 8,
\* 30.5 and 31 days after the recent accesses.
ModelIds == {"m1", "m2"}
AskedModelIds == ModelIds \cup {"m0"}
FileNames == {"model.pkl", "weights.bin"}
OldAccessTime == 0
RecentAccessTime == 16
TierTimes == {RecentAccessTime + t : t \in {0, 4, 6, 15, 16, 61, 62}}
AccessCounts ==
  { <<0, 0>>, <<1, 0>>, <<0, 4>>, <<0, 5>>, <<0, 9>>, <<1, 9>>, <<0, 10>>,
    <<0, 12>> }

\* ModelRepository.save_model: the file is stored under the model's own
\* directory and the metadata records that path.
SavedPath(model_id, filename) == Join(Join(ModelsPath, model_id), filename)

\* The file at a path: whose content it holds and whether all of it is
\* there.
StoredFile(content, complete) == [content |-> content, complete |-> complete]

\* What `old` calls of record_model_access at OldAccessTime followed by
\* `recent` calls at RecentAccessTime leave for a key.
AccessesOf(old, recent) ==
  [i \in 1..(old + recent) |->
     IF i <= old THEN OldAccessTime ELSE RecentAccessTime]

RECURSIVE RecordedAll(_, _, _, _)
RecordedAll(data, key, times, i) ==
  IF i > Len(times) THEN data
  ELSE RecordedAll(Recorded(data, key, times[i]), key, times, i + 1)

TiererFree == tierer.pc \in {"idle", "done", "crashed"}

\* The last optimization of each model that returned, kept for the
\* properties that compare two successive optimizations.
LastReturned ==
  IF tierer.pc = "idle" THEN [m \in ModelIds |-> NoRecord]
  ELSE IF tierer.pc = "done" /\ tierer.outcome = "returned"
  THEN [tierer.prev EXCEPT ![tierer.id] =
          [access_pattern |-> tierer.access_pattern,
           target_tier |-> tierer.target_tier,
           record |-> tierer.record]]
  ELSE tierer.prev

\* optimize_model_storage up to the decision to move.
OptimizeModelStorage(model_id) ==
  /\ TiererFree
  /\ LET found == model_id \in DOMAIN models
         storage_path == models[model_id].storage_path
         access_pattern == GetAccessPattern(access_data, model_id, now)
         current_tier == GetCurrentStorageTier(storage_path)
         target_tier == DetermineStorageTier(access_pattern)
         f == [pc |-> "done", id |-> model_id, at |-> now,
               access_pattern |-> None, current_tier |-> None,
               target_tier |-> None, src |-> <<>>, dst |-> <<>>,
               content |-> NoRecord, files0 |-> files, models0 |-> models,
               record |-> NoRecord, outcome |-> "raised",
               error |-> "Model not found", result |-> NoRecord,
               prev |-> LastReturned]
         g == [f EXCEPT !.access_pattern = access_pattern,
                        !.current_tier = current_tier,
                        !.target_tier = target_tier,
                        !.record = IF model_id \in DOMAIN access_data
                                   THEN access_data[model_id] ELSE NoRecord,
                        !.error = None]
     IN tierer' =
          IF ~found THEN f
          ELSE IF current_tier = target_tier
          THEN [g EXCEPT !.outcome = "returned",
                         !.result = [status |-> "already_optimized",
                                     tier |-> target_tier,
                                     access_pattern |-> access_pattern]]
          ELSE [g EXCEPT !.pc = "copy", !.outcome = "running",
                         !.src = storage_path,
                         !.dst = NewStoragePath(storage_path, target_tier),
                         !.content = IF storage_path \in DOMAIN files
                                     THEN files[storage_path] ELSE NoRecord]
  /\ UNCHANGED <<files, models>>

\* shutil.copy2 opens the source and creates or empties the destination;
\* a missing source raises FileNotFoundError out of optimize_model_storage.
MoveCopyBegin ==
  /\ tierer.pc = "copy"
  /\ IF tierer.src \in DOMAIN files
     THEN /\ files' = (tierer.dst :> StoredFile(files[tierer.src].content,
                                                FALSE)) @@ files
          /\ tierer' = [tierer EXCEPT !.pc = "copying"]
     ELSE /\ tierer' = [tierer EXCEPT !.pc = "done", !.outcome = "raised",
                                      !.error = "No such file or directory"]
          /\ UNCHANGED files
  /\ UNCHANGED models

MoveCopyEndLeavingPartial ==
  /\ tierer.pc = "copying"
  /\ tierer' = [tierer EXCEPT !.pc = "remove"]
  /\ UNCHANGED <<files, models>>

\* shutil.copy2 has written all it read from the source.
MoveCopyEnd ==
  /\ tierer.pc = "copying"
  /\ files' = [files EXCEPT ![tierer.dst] =
                 StoredFile(files[tierer.src].content,
                            files[tierer.src].complete)]
  /\ tierer' = [tierer EXCEPT !.pc = "remove"]
  /\ UNCHANGED models

\* os.remove(storage_path)
MoveRemove ==
  /\ tierer.pc = "remove"
  /\ files' = [p \in DOMAIN files \ {tierer.src} |-> files[p]]
  /\ tierer' = [tierer EXCEPT !.pc = "save"]
  /\ UNCHANGED models

\* model.storage_path = new_storage_path; _save_model_metadata(model)
SaveModelMetadata ==
  /\ tierer.pc = "save"
  /\ models' = [models EXCEPT ![tierer.id].storage_path = tierer.dst]
  /\ tierer' = [tierer EXCEPT
                  !.pc = "done", !.outcome = "returned",
                  !.result = [status |-> "optimized",
                              from_tier |-> tierer.current_tier,
                              to_tier |-> tierer.target_tier,
                              access_pattern |-> tierer.access_pattern,
                              new_storage_path |-> tierer.dst]]
  /\ UNCHANGED files

\* The process dies in the middle of a relocation: the files and the
\* metadata stay as they are.
TierCrash ==
  /\ tierer.pc \in {"copy", "copying", "remove", "save"}
  /\ tierer' = [tierer EXCEPT !.pc = "crashed", !.outcome = "crashed"]
  /\ UNCHANGED <<files, models>>

\* Time passes between two optimizations.
TierAdvance ==
  /\ TiererFree
  /\ \E t \in TierTimes : t > now /\ now' = t
  /\ UNCHANGED <<tierer, files, models>>

\* The models have been saved and their accesses recorded; the tiering
\* service is about to be asked to optimize.
InitTier ==
  /\ store = [i \in Ids |-> NoRecord]
  /\ now = RecentAccessTime
  /\ created = 0
  /\ calls = [c \in Callers |-> Idle]
  /\ last = NoOp
  /\ beforeHibernate = [i \in Ids |-> NoRecord]
  /\ opt = OptIdle
  /\ batch = BatchIdle
  /\ PriceIdle
  /\ MonitorIdle
  /\ tierer = TiererIdle
  /\ \E name \in [ModelIds -> FileNames] :
       /\ name["m1"] = "model.pkl"
       /\ models = [m \in ModelIds |->
                      [storage_path |-> SavedPath(m, name[m])]]
       /\ files = [p \in {SavedPath(m, name[m]) : m \in ModelIds} |->
                     StoredFile(CHOOSE m \in ModelIds :
                                  p = SavedPath(m, name[m]), TRUE)]
  /\ \E n \in AccessCounts :
       /\ accessed = IF n[1] + n[2] = 0 THEN NoMetricsData
                     ELSE [k \in {"m1"} |-> AccessesOf(n[1], n[2])]
       /\ access_data = RecordedAll(NoAccessData, "m1",
                                    AccessesOf(n[1], n[2]), 1)

TierNext ==
  /\ \/ \E model_id \in AskedModelIds :
          OptimizeModelStorage(model_id) /\ UNCHANGED now
     \/ MoveCopyBegin /\ UNCHANGED now
     \/ MoveCopyEnd /\ UNCHANGED now
     \/ MoveRemove /\ UNCHANGED now
     \/ SaveModelMetadata /\ UNCHANGED now
     \/ TierCrash /\ UNCHANGED now
     \/ TierAdvance
  /\ UNCHANGED <<store, created, calls, last, beforeHibernate, opt, batch,
                  price_file, pricers, access_data, accessed, monVars>>

SpecTier == InitTier /\ [][TierNext]_vars

\* ------------------------------------------------------------ claim C24
\* The documented decision table, on whole days since an access.
DocumentedPattern(data, key, t) ==
  LET no_record == key \notin DOMAIN data
      since_last == Days(data[key].last_access, t)
      within_week == {i \in DOMAIN data[key].access_history :
                        Days(data[key].access_history[i], t) <= 7}
  IN IF no_record \/ data[key].total_accesses = 0 \/ since_last > 30
     THEN "rare"
     ELSE IF since_last > 7 \/ Len(data[key].access_history) < 5
     THEN "infrequent"
     ELSE IF Cardinality(within_week) >= 10 THEN "frequent"
     ELSE "infrequent"

\* The optimizations that classified their model.
Classified == tierer.pc # "idle" /\ tierer.access_pattern # None

Returned == tierer.pc = "done" /\ tierer.outcome = "returned"

\* The tier the documented mapping gives an access pattern.
DocumentedTier(access_pattern) ==
  CASE access_pattern = "frequent" -> "hot"
    [] access_pattern = "infrequent" -> "cold"
    [] access_pattern = "rare" -> "archive"

\* The tier a stored path lies in by its prefix, hot when it lies in none.
TierByPrefix(path) ==
  IF path[1] = "cold_storage" THEN "cold"
  ELSE IF path[1] = "archive_storage" THEN "archive"
  ELSE "hot"

MovedNothing == files = tierer.files0 /\ models = tierer.models0

\* An optimization that returned followed the mapping, reported
\* "already_optimized" and moved nothing when the model was in its target
\* tier, and otherwise left the stored path under the target tier's root.
OptimizeFollowsMapping ==
  Returned =>
    LET before == tierer.models0[tierer.id].storage_path
        after == models[tierer.id].storage_path
    IN /\ tierer.target_tier = DocumentedTier(tierer.access_pattern)
       /\ tierer.current_tier = TierByPrefix(before)
       /\ tierer.current_tier = tierer.target_tier
            => tierer.result.status = "already_optimized" /\ MovedNothing
       /\ tierer.current_tier # tierer.target_tier
            => /\ tierer.result.status = "optimized"
               /\ TierByPrefix(after) = tierer.target_tier
               /\ after[1] \in {"hot_storage", "cold_storage",
                                "archive_storage"}

\* The optimization that returned was not the first of its model, and the
\* model's access record is what it was at the one before.
SecondWithSameRecord ==
  /\ Returned
  /\ tierer.prev[tierer.id] # NoRecord
  /\ tierer.prev[tierer.id].record = tierer.record

\* C25 as stated: the mapping, and a second optimize with an unchanged
\* access record reports "already_optimized" and moves nothing.
C25_SecondOptimizeWithSameRecordMovesNothing ==
  /\ OptimizeFollowsMapping
  /\ SecondWithSameRecord
       => tierer.result.status = "already_optimized" /\ MovedNothing

\* C25 amended: the mapping, and a second optimize with an unchanged access
\* record that is classified as it was at the first reports
\* "already_optimized" and moves nothing.
C25_SecondOptimizeInSameClassMovesNothing ==
  /\ OptimizeFollowsMapping
  /\ (/\ SecondWithSameRecord
      /\ tierer.prev[tierer.id].access_pattern = tierer.access_pattern)
       => tierer.result.status = "already_optimized" /\ MovedNothing

\* A model was moved to the cold tier by one optimization, and the next
\* one, with the same record in the same class, found it there.
C25_SecondOptimizeFoundModelInColdTier ==
  /\ SecondWithSameRecord
  /\ tierer.prev[tierer.id].access_pattern = "infrequent"
  /\ tierer.access_pattern = "infrequent"
  /\ tierer.models0[tierer.id].storage_path[1] = "cold_storage"
  /\ tierer.result.status = "already_optimized"
  /\ tierer.record # NoRecord

\* ------------------------------------------------------------ claim C27
\* A complete copy of the file the relocation began with is at the path.
HasCopy(path) ==
  /\ path \in DOMAIN files
  /\ files[path] = StoredFile(tierer.content.content, TRUE)

\* The relocation of a complete file has begun.
Relocating ==
  /\ \/ tierer.pc \in {"copy", "copying", "remove", "save"}
     \/ tierer.pc = "crashed"
     \/ tierer.pc = "done" /\ tierer.outcome = "returned"
        /\ tierer.result.status = "optimized"
  /\ tierer.content # NoRecord
  /\ tierer.content.complete

\* C27: at every step of a relocation, and after a crash at any of them, a
\* complete copy of the file is at its old path or at its new one: a crash
\* leaves the file in one place or in both, never in none.
C27_RelocationKeepsACompleteCopy ==
  Relocating => HasCopy(tierer.src) \/ HasCopy(tierer.dst)

\* The process died after the copy and before the source was removed: the
\* file is complete in both places.
C27_CrashLeftTheFileInTwoTiers ==
  /\ tierer.pc = "crashed"
  /\ Relocating
  /\ HasCopy(tierer.src)
  /\ HasCopy(tierer.dst)

\* ------------------------------------------------ monitoring/monitoring.py
\* The cap of _save_deployment_metrics, and how many collections are
\* followed: the first deployment up to MaxSamples, the second up to
\* MaxOtherSamples.
MetricsCap == 1000
MaxSamples == 1002
MaxOtherSamples == 2

\* The common fields collect_deployment_metrics adds to what the collector
\* of the deployment's kind returned.
Sample(d, kind, t) ==
  [kind |-> kind, deployment_id |-> d.id, deployment_name |-> d.name,
   deployment_type |-> d.deployment_type, deployment_status |-> d.status,
   model_id |-> d.model_id, model_type |-> d.model_type, timestamp |-> t]

\* _collect_serverless_deployment_metrics returns simulated metrics.
ServerlessCollected(d, t) ==
  [outcome |-> "returned", error |-> None, saved |-> TRUE,
   metrics |-> Sample(d, "serverless", t)]

\* collect_deployment_metrics up to _save_deployment_metrics: what the call
\* raises or returns, and whether it has a sample to save.
Collection(id, t) ==
  LET d == GetDeployment(id)
      raised(text) == [outcome |-> "raised", error |-> text,
                       saved |-> FALSE, metrics |-> NoRecord]
      returned(kind) == [outcome |-> "returned", error |-> None,
                         saved |-> TRUE, metrics |-> Sample(d, kind, t)]
  IN IF d = NoRecord THEN raised("Deployment not found")
     ELSE IF d.status \notin {"active", "hibernated"}
     THEN [outcome |-> "returned", error |-> None, saved |-> FALSE,
           metrics |-> [status |-> "skipped",
                        reason |-> "Deployment is " \o d.status,
                        timestamp |-> t]]
     ELSE IF d.status = "hibernated" THEN returned("hibernated")
     ELSE IF d.deployment_type = "kubernetes"
     THEN IF ShapeParses(d) THEN returned("kubernetes")
          ELSE raised(ValueErrorText)
     ELSE IF d.deployment_type = "serverless" THEN ServerlessCollected(d, t)
     ELSE raised("Unsupported deployment type")

KeptFirstThousand(history) ==
  IF Len(history) > MetricsCap THEN SubSeq(history, 1, MetricsCap)
  ELSE history

\* metrics_data[deployment_id][-1000:] when the list is longer than 1000.
TrimmedMetrics(history) ==
  IF Len(history) > MetricsCap
  THEN SubSeq(history, Len(history) - MetricsCap + 1, Len(history))
  ELSE history

\* _save_deployment_metrics
SaveDeploymentMetrics(data, id, metrics) ==
  [k \in DOMAIN data \cup {id} |->
     IF k = id
     THEN TrimmedMetrics(Append(IF id \in DOMAIN data THEN data[id] ELSE <<>>,
                                metrics))
     ELSE data[k]]

\* Every sample ever saved for a deployment, in the order of collection.
Logged(log, id, metrics) ==
  [k \in DOMAIN log \cup {id} |->
     IF k = id
     THEN Append(IF id \in DOMAIN log THEN log[id] ELSE <<>>, metrics)
     ELSE log[k]]

SamplesOf(log, id) == IF id \in DOMAIN log THEN Len(log[id]) ELSE 0

\* The collections followed: the first deployment's at any time, the
\* second deployment's before the first has a sample or once the first
\* deployment's history has reached the cap.
MayCollect(id) ==
  IF id = 1 THEN SamplesOf(collected, 1) < MaxSamples
  ELSE /\ SamplesOf(collected, id) < MaxOtherSamples
       /\ \/ SamplesOf(collected, 1) = 0
          \/ SamplesOf(collected, 1) >= MetricsCap - 1

\* collect_deployment_metrics: a call that saves a sample reads a later
\* utcnow than the one before it.
CollectDeploymentMetrics(id) ==
  /\ MayCollect(id)
  /\ LET r == Collection(id, now)
     IN /\ monitor' = [pc |-> "done", op |-> "collect_deployment_metrics",
                       id |-> id, results |-> <<r>>]
        /\ IF r.saved
           THEN /\ metrics_data' =
                     SaveDeploymentMetrics(metrics_data, id, r.metrics)
                /\ collected' = Logged(collected, id, r.metrics)
                /\ now' = now + 1
           ELSE UNCHANGED <<metrics_data, collected, now>>

\* The loop of collect_metrics over the deployments listed, an exception of
\* one collection being reported in its place.
RECURSIVE CollectAll(_, _)
CollectAll(todo, acc) ==
  IF todo = <<>> THEN acc
  ELSE LET id == Head(todo)
           r == Collection(id, acc.t)
       IN CollectAll(Tail(todo),
            IF r.saved
            THEN [data |-> SaveDeploymentMetrics(acc.data, id, r.metrics),
                  log |-> Logged(acc.log, id, r.metrics),
                  t |-> acc.t + 1,
                  results |-> Append(acc.results, r)]
            ELSE [acc EXCEPT !.results = Append(@, r)])

\* collect_metrics
CollectMetrics ==
  /\ \A id \in Ids : MayCollect(id)
  /\ LET listed == {i \in Ids : GetDeployment(i) # NoRecord}
     IN \E todo \in Orderings(listed) :
          LET acc == CollectAll(todo, [data |-> metrics_data,
                                       log |-> collected, t |-> now,
                                       results |-> <<>>])
          IN /\ metrics_data' = acc.data
             /\ collected' = acc.log
             /\ now' = acc.t
             /\ monitor' = [pc |-> "done", op |-> "collect_metrics",
                            id |-> 0, results |-> acc.results]

\* Deployments the monitoring service meets.
MonFirstRecords ==
  {ActiveRecord(1, KubernetesOptArgs, -3),
   HibernatedRecord(1, KubernetesOptArgs, -3)}
MonSecondRecords ==
  {NoRecord, ActiveRecord(2, ServerlessMilliArgs, -3),
   ActiveRecord(2, KubernetesMilliArgs, -3),
   FailedRecord(2, KubernetesOptArgs, -3)}

\* The monitoring service has been constructed: no sample is stored.
InitMon ==
  \E r1 \in MonFirstRecords, r2 \in MonSecondRecords :
    /\ store = [i \in Ids |-> IF i = 1 THEN r1 ELSE IF i = 2 THEN r2
                                                 ELSE NoRecord]
    /\ now = 0
    /\ created = 2
    /\ calls = [c \in Callers |-> Idle]
    /\ last = NoOp
    /\ beforeHibernate = [i \in Ids |-> NoRecord]
    /\ opt = OptIdle
    /\ batch = BatchIdle
    /\ ExtIdle

MonNext ==
  /\ \/ \E id \in Ids : CollectDeploymentMetrics(id)
     \/ CollectMetrics
  /\ UNCHANGED <<store, created, calls, last, beforeHibernate, opt, batch,
                  price_file, pricers, tierVars>>

SpecMon == InitMon /\ [][MonNext]_vars

\* ------------------------------------------------------------ claim C28
\* C28: the stored history of every deployment holds at most 1000 samples
\* and is the most recent min(n, 1000) of the n samples collected for that
\* deployment, in the order of collection; every sample in it is of that
\* deployment.
C28_MetricHistoryKeepsLastThousand ==
  /\ DOMAIN metrics_data = DOMAIN collected
  /\ \A id \in DOMAIN metrics_data :
       LET n == Len(collected[id])
           kept == Min(n, MetricsCap)
       IN /\ Len(metrics_data[id]) <= MetricsCap
          /\ metrics_data[id] = SubSeq(collected[id], n - kept + 1, n)
          /\ \A i \in DOMAIN metrics_data[id] :
               metrics_data[id][i].deployment_id = id

\* The first deployment has been collected more than 1000 times and has
\* lost its earliest samples, while the second keeps both of its own.
C28_FirstHistoryCappedSecondUntouched ==
  /\ 1 \in DOMAIN collected /\ 2 \in DOMAIN collected
  /\ Len(collected[1]) = MetricsCap + 2
  /\ Len(metrics_data[1]) = MetricsCap
  /\ metrics_data[1][1] = collected[1][3]
  /\ Len(collected[2]) = 2
  /\ metrics_data[2] = collected[2]

\* ------------------------------------------------------------ claim C29
\* C29 as stated, for metric collection: after a sample has been collected
\* from an active deployment, the deployment's last_active_at is the time
\* of that collection.
C29_CollectionWhileActiveRefreshesLastActive ==
  \A id \in DOMAIN metrics_data :
    LET latest == metrics_data[id][Len(metrics_data[id])]
    IN (store[id] # NoRecord /\ latest.deployment_status = "active")
         => store[id].last_active_at = latest.timestamp

\* ------------------------------------------------------------ claim C30
\* The times at which a stored record may be loaded.
LoadTimes == 0..MaxTime

\* C30: a stored deployment record, loaded with from_dict at any time, has
\* the stored id, status, endpoint, resource requirements, scaling policy,
\* cost policy and metadata, and to_dict of what was loaded is the stored
\* record again.
C30_StoredRecordSurvivesRoundTrip ==
  \A id \in Ids :
    store[id] # NoRecord =>
      \A t \in LoadTimes :
        LET d == FromDict(store[id], t)
        IN /\ d.id = store[id].id
           /\ d.status = store[id].status
           /\ d.endpoint = store[id].endpoint
           /\ d.resource_requirements = store[id].resource_requirements
           /\ d.scaling_policy = store[id].scaling_policy
           /\ d.cost_optimization_policy = store[id].cost_optimization_policy
           /\ d.metadata = store[id].metadata
           /\ ToDict(d) = store[id]
           /\ ToDict(FromDict(ToDict(d), t)) = ToDict(d)

\* A hibernated record with an endpoint, requested resources and metadata
\* is stored and is loaded later than it was written.
C30_HibernatedRecordWithMetadataStored ==
  \E id \in Ids :
    /\ store[id] # NoRecord
    /\ store[id].status = "hibernated"
    /\ store[id].endpoint # None
    /\ store[id].resource_requirements = BigResources
    /\ store[id].metadata # EmptyMeta
    /\ store[id].updated_at < now

\* ------------------------------------------------ optimizer checks, again
\* The check named k of the running pass has just reported its outcome.
Reported(k) == k \notin DOMAIN opt.results /\ k \in DOMAIN opt'.results

\* The hibernation check runs its decision step.
HibernationDecides == opt.pc = "hibernation" /\ opt' # opt

\* The step made a deployment-service call: the pass logged one more call.
CalledService(op) ==
  /\ Len(opt'.smcalls) = Len(opt.smcalls) + 1
  /\ opt'.smcalls[Len(opt'.smcalls)].op = op

OnSpot(r) == r # NoRecord /\ Get(r.metadata, "using_spot_instances", FALSE) = TRUE

SpotDecides == opt.pc = "spot_instances" /\ opt' # opt

\* C32: over any sequence of optimizer passes the spot check sets the
\* using_spot_instances flag only when the policy enables it, the deployment
\* runs on the cluster venue, the flag is not yet set and the spot price is
\* available and strictly lower than the on-demand price (equal prices give
\* "not_beneficial" and no change); once the flag is set it stays set and
\* every later spot check returns without converting, so a deployment is
\* converted at most once.
C32_SpotConversionAtMostOnce ==
  /\ [][\A id \in Ids :
          /\ OnSpot(store[id]) /\ store'[id] # NoRecord => OnSpot(store'[id])
          /\ (~OnSpot(store[id]) /\ OnSpot(store'[id]))
               => /\ SpotDecides /\ opt.id = id
                  /\ CalledService("update")
                  /\ opt.dep.cost_optimization_policy.use_spot_instances
                  /\ opt.dep.deployment_type = "kubernetes"
                  /\ opt'.seen.spot_available
                  /\ opt'.seen.spot_price < opt'.seen.on_demand_price]_vars
  /\ [][SpotDecides =>
          LET r == opt'.results["spot_instances"]
          IN /\ OnSpot(store[opt.id])
                  => /\ UNCHANGED smVars
                     /\ opt'.smcalls = opt.smcalls
                     /\ r.status \in {"skipped", "already_optimized"}
             /\ (Reported("spot_instances") /\ r.status = "not_beneficial")
                  => /\ UNCHANGED smVars
                     /\ opt'.smcalls = opt.smcalls
                     /\ \/ ~r.spot_available
                        \/ r.spot_price >= r.on_demand_price
             /\ CalledService("update")
                  => /\ ~OnSpot(store[opt.id]) /\ OnSpot(store'[opt.id])
                     /\ opt'.pending.status = "converted"]_vars

\* A later pass met the deployment an earlier pass had converted and
\* returned "already_optimized".
C32_LaterPassFoundFlagSet ==
  /\ "spot_instances" \in DOMAIN opt.results
  /\ opt.results["spot_instances"].status = "already_optimized"
  /\ OnSpot(opt.pre)
  /\ OnSpot(store[opt.id])
  /\ store[opt.id].metadata["spot_price"] = 3

SizingDecides == opt.pc = "resource_sizing" /\ opt' # opt

\* The quantity the sizing rule gives a resource: max(floor, 0.75 * current)
\* below the utilization threshold, the current quantity otherwise.
Sized(floor, current, utilization) ==
  IF utilization < 30 THEN Max(floor, (current * 3) \div 4) ELSE current

\* C33: in the sizing check a resource is shrunk to max(floor, 0.75 *
\* current) if and only if its utilization is strictly below 30; a resource
\* at 30 or more keeps its quantity, gpu is passed through, and with both
\* utilizations at 30 or more the check reports "optimal" and does not call
\* update.
C33_ShrinksBelowThirtyElseKeeps ==
  [][SizingDecides =>
       \/ /\ Reported("resource_sizing")
          /\ opt'.results["resource_sizing"].status = "optimal"
          /\ opt'.results["resource_sizing"].cpu_utilization >= 30
          /\ opt'.results["resource_sizing"].memory_utilization >= 30
          /\ opt'.smcalls = opt.smcalls
          /\ UNCHANGED smVars
       \/ /\ CalledService("update")
          /\ \/ opt'.seen.cpu_utilization < 30
             \/ opt'.seen.memory_utilization < 30
          /\ LET written == calls'[Optimizer].args.resource_requirements
             IN /\ Float(written.cpu)
                     = Sized(MinCpu, CurrentCpu(opt.dep),
                             opt'.seen.cpu_utilization)
                /\ Float(RStrip(written.memory, {"G", "i"}))
                     = Sized(MinMemory, CurrentMemory(opt.dep),
                             opt'.seen.memory_utilization)
                /\ written.gpu = opt.dep.resource_requirements.gpu
                /\ store'[opt.id].resource_requirements = written]_vars

\* ------------------------------------------------ quotes of the tracker
\* Unit prices (cpu, memory, gpu), here in thousandths of a dollar, that a
\* region of the table may carry. For the shape cpu 0.4, memory 0.8 without
\* gpu the first and the third give the same total.
QuoteUnitPrices ==
  { <<40, 10, 500>>, <<45, 11, 550>>, <<36, 12, 450>> }

\* price_tracking.json after a refresh at time 0: two providers with two
\* regions each, in the order of the dictionary.
QuoteTables ==
  { [complete |-> TRUE, last_update |-> 0,
     providers |->
       << [provider |-> "aws",
           regions |-> << Region("us-east-1", a1[1], a1[2], a1[3]),
                          Region("us-west-1", a2[1], a2[2], a2[3]) >>],
          [provider |-> "gcp",
           regions |-> << Region("us-central1", g1[1], g1[2], g1[3]),
                          Region("us-west1", g2[1], g2[2], g2[3]) >>] >>] :
      a1 \in QuoteUnitPrices, a2 \in QuoteUnitPrices,
      g1 \in QuoteUnitPrices, g2 \in QuoteUnitPrices }

\* Resource shapes of the deployments quoted: with and without a gpu.
QuoteShapes ==
  { [cpu |-> cpu, memory |-> "0.8Gi", gpu |-> gpu, timeout |-> 30] :
      cpu \in {"0.4", "1"}, gpu \in {None, "1"} }

QuoteRecords ==
  { ActiveRecord(1, [KubernetesOptArgs EXCEPT !.resource_requirements = rr],
                 -3) : rr \in QuoteShapes }

\* The arbitrage service meets one active deployment and a table that is
\* not due for a refresh.
InitQuote ==
  \E r1 \in QuoteRecords, table \in QuoteTables :
    /\ store = [i \in Ids |-> IF i = 1 THEN r1 ELSE NoRecord]
    /\ now = 0
    /\ created = 1
    /\ calls = [c \in Callers |-> Idle]
    /\ last = NoOp
    /\ beforeHibernate = [i \in Ids |-> NoRecord]
    /\ opt = OptIdle
    /\ batch = BatchIdle
    /\ price_file = table
    /\ pricers = [c \in Callers |-> PricerIdle]
    /\ TierIdle
    /\ MonitorIdle

\* check_deployment_arbitrage on a table that needs no refresh.
QuoteNext ==
  /\ \/ ArbitrageBegin(Optimizer, 1)
     \/ UpdatePricingDataIfNeeded(Optimizer)
     \/ GetPricingData(Optimizer)
  /\ UNCHANGED <<opt, batch, tierVars, monVars>>

SpecQuote == InitQuote /\ [][QuoteNext]_vars

\* The least element of a set of numbers.
Least(S) == CHOOSE x \in S : \A y \in S : x <= y

\* The provider and the price check_deployment_arbitrage names as cheapest.
ChosenQuote(r) ==
  CASE r.status = "optimal" ->
         [provider |-> r.current_provider, price |-> r.current_price]
    [] r.status = "arbitrage_opportunity" ->
         [provider |-> r.recommended_provider, price |-> r.recommended_price]
    [] OTHER ->
         [provider |-> r.cheapest_provider, price |-> r.cheapest_price]

\* C34: for every price table and resource shape the quote of a provider is
\* the minimum over its regions of cpu * cpu_price + memory * memory_price +
\* gpu * gpu_price together with the first region attaining it, the cheapest
\* provider chosen attains the minimum of the quotes, and a missing gpu
\* requirement counts as 0.
C34_QuoteIsRegionMinimum ==
  \A c \in CheckReads :
    LET f == pricers[c]
        table == f.seen.providers
        quotes == f.result.pricing_data
        rr == f.dep.resource_requirements
        cpu == Float(rr.cpu)
        memory == Float(RStrip(rr.memory, {"G", "i"}))
        gpu == IF rr.gpu = None THEN 0 ELSE Float(rr.gpu)
        total(r) == cpu * r.cpu + memory * r.memory + gpu * r.gpu
        chosen == ChosenQuote(f.result)
    IN /\ Len(quotes) = Len(table)
       /\ \A i \in DOMAIN table :
            LET regions == table[i].regions
                least == Least({total(regions[j]) : j \in DOMAIN regions})
                first == Least({j \in DOMAIN regions :
                                  total(regions[j]) = least})
            IN /\ quotes[i].provider = table[i].provider
               /\ quotes[i].price = least
               /\ quotes[i].region = regions[first].region
               /\ quotes[i].cpu_price = regions[first].cpu
               /\ quotes[i].memory_price = regions[first].memory
               /\ quotes[i].gpu_price = regions[first].gpu
       /\ chosen.price = Least({quotes[i].price : i \in DOMAIN quotes})
       /\ \E i \in DOMAIN quotes :
            quotes[i].provider = chosen.provider
            /\ quotes[i].price = chosen.price

\* A check quoted a deployment without gpu whose first and second aws
\* regions, with different unit prices, cost the same: the first was named.
C34_TieNamedFirstRegion ==
  /\ Optimizer \in CheckReads
  /\ LET f == pricers[Optimizer]
         regions == f.seen.providers[1].regions
     IN /\ f.dep.resource_requirements.gpu = None
        /\ f.dep.resource_requirements.cpu = "0.4"
        /\ regions[1].cpu # regions[2].cpu
        /\ 400 * regions[1].cpu + 800 * regions[1].memory
             = 400 * regions[2].cpu + 800 * regions[2].memory
        /\ f.result.pricing_data[1].region = "us-east-1"
        /\ f.result.pricing_data[1].price = 24000

\* ------------------------------------------------ removal under concurrency
\* The record of id was created and has been removed by a successful delete.
Removed(id) == id <= created /\ store[id] = NoRecord

\* C35: once delete has succeeded and removed a deployment record the
\* record never reappears: no handler that was in progress on the same id
\* persists its stale copy after the removal.
C35_RemovedRecordNeverReappears ==
  [][\A id \in Ids : Removed(id) => store'[id] = NoRecord]_vars

\* ------------------------------------------------ termination of handlers
\* The latest time at which a handler may still be entered.
MaxLiveTime == 5

\* The deployer call of caller c's handler comes back, with a result or an
\* exception, or the dispatch raises for an unsupported type.
Returns(c) ==
  /\ \/ \E ep \in Endpoints : DeployOk(c, ep)
     \/ UpdateOk(c)
     \/ DeleteOk(c)
     \/ HibernateOk(c)
     \/ ActivateOk(c)
     \/ \E text \in ErrTexts : ProvisionerRaises(c, text)
     \/ UnsupportedType(c)
  /\ UNCHANGED <<opt, batch>>
  /\ UNCHANGED extVars

\* A handler is requested while there is time left for it to finish.
Requests(c) ==
  /\ now < MaxLiveTime /\ now + 1 < MaxTime
  /\ \/ \E args \in DeployArgs : DeployBegin(c, args)
     \/ \E id \in Ids, args \in UpdateArgs : UpdateBegin(c, id, args)
     \/ \E id \in Ids : DeleteBegin(c, id)
     \/ \E id \in Ids : HibernateBegin(c, id)
     \/ \E id \in Ids : ActivateBegin(c, id)
  /\ UNCHANGED <<opt, batch>>
  /\ UNCHANGED extVars

LiveNext == \E c \in SeqCallers : Requests(c) \/ Returns(c)

\* The process stays up and every deployer call comes back: a handler that
\* waits for its deployer eventually takes its next step.
SpecLive ==
  Init /\ [][LiveNext]_vars /\ \A c \in SeqCallers : WF_vars(Returns(c))

Transitional(r) ==
  r # NoRecord /\ r.status \in {"pending", "deploying", "scaling", "terminating"}

\* C36: when every provisioner call eventually returns, every deploy,
\* update, hibernate, activate and delete terminates, and leaves the
\* deployment removed or active, hibernated or failed; a record is in
\* deploying, scaling or terminating only while the handler that set it
\* waits for its provisioner call.
C36_HandlersTerminateInTerminalStatus ==
  /\ \A c \in SeqCallers : Busy(c) ~> ~Busy(c)
  /\ [](\A id \in Ids :
          Transitional(store[id])
            => \E c \in Callers : Busy(c) /\ calls[c].dep.id = id)
  /\ [](AtRest =>
          \A id \in Ids :
            \/ store[id] = NoRecord
            \/ store[id].status \in {"active", "hibernated", "failed"})

\* An update whose provisioner call returned has left the record active,
\* and no handler is in progress.
C36_UpdateReturnedToActive ==
  /\ AtRest
  /\ last.op = "update" /\ last.outcome = "ok"
  /\ last.pre.status = "active"
  /\ store[last.id].status = "active"
  /\ store[last.id].updated_at > last.pre.updated_at

\* C37: the sizing check never increases a requested quantity: for every
\* current cpu and memory, also below the floors 0.25 and 0.5, and every
\* utilization, the written cpu and memory are at most the current ones, and
\* the savings percentages it reports are never negative.
C37_SizingNeverIncreases ==
  SizingWrites =>
    /\ WrittenCpu <= CurrentCpu(opt.dep)
    /\ WrittenMemory <= CurrentMemory(opt.dep)
    /\ opt.pending.cpu.savings_percentage >= 0
    /\ opt.pending.memory.savings_percentage >= 0

\* ------------------------------------------------ stored paths of artifacts
\* The optimization of a model has ended, by returning, raising or dying.
RelocationEnded ==
  /\ tierer.pc \in {"done", "crashed"}
  /\ tierer.id \in DOMAIN models
  /\ tierer.content # NoRecord
  /\ tierer.content.complete

\* C38: whenever an optimization ends, also by a crash between two of its
\* steps, the persisted storage path of the model names a place where a
\* complete copy of its file exists; it never points at a removed file.
C38_StoredPathNamesACopy ==
  RelocationEnded => HasCopy(models[tierer.id].storage_path)

\* A step of the relocation of one model.
RelocationStep ==
  /\ tierer.pc \in {"copy", "copying", "remove", "save"}
  /\ tierer' # tierer

\* C39: relocating one model never overwrites, removes or changes the
\* stored file or the stored path of another model, also when two models
\* have the same file name and move to the same tier.
C39_RelocationLeavesOtherModelsAlone ==
  [][RelocationStep =>
       \A m \in ModelIds \ {tierer.id} :
         LET path == models[m].storage_path
         IN /\ models'[m] = models[m]
            /\ path \in DOMAIN files
                 => /\ path \in DOMAIN files'
                    /\ files'[path] = files[path]]_vars

\* ------------------------------------------------ concurrent record_model_access
\* StorageTiering takes no lock and keeps the access data in one file, so
\* calls from different threads run against the same file. Here `tierer`
\* holds one frame per calling thread: the access data it loaded and the key
\* it is recording.
AccessKeys == {"m1", "m2"}

\* How many calls are followed altogether.
MaxConcAccesses == 3

RECURSIVE SumOfLengths(_, _)
SumOfLengths(f, keys) ==
  IF keys = {} THEN 0
  ELSE LET k == CHOOSE x \in keys : TRUE
       IN Len(f[k]) + SumOfLengths(f, keys \ {k})

\* The calls that have saved, and the calls that have loaded and not saved.
CallsMade == SumOfLengths(accessed, DOMAIN accessed)
CallsInProgress == Cardinality({c \in Callers : tierer[c].pc = "loaded"})

\* record_model_access up to the key: access_data = _load_access_tracking()
RecordAccessLoad(c, model_id, is_optimized) ==
  /\ tierer[c].pc = "idle"
  /\ CallsMade + CallsInProgress < MaxConcAccesses
  /\ tierer' = [tierer EXCEPT ![c] =
                  [pc |-> "loaded", key |-> ModelKey(model_id, is_optimized),
                   access_data |-> access_data]]
  /\ UNCHANGED <<access_data, accessed, now>>

\* record_model_access from utcnow() on: the loaded data is updated for the
\* key and _save_access_tracking writes all of it back.
RecordAccessSave(c) ==
  /\ tierer[c].pc = "loaded"
  /\ access_data' = Recorded(tierer[c].access_data, tierer[c].key, now)
  /\ accessed' =
       [k \in DOMAIN accessed \cup {tierer[c].key} |->
          IF k = tierer[c].key
          THEN Append(IF k \in DOMAIN accessed THEN accessed[k] ELSE <<>>, now)
          ELSE accessed[k]]
  /\ now' = now + 1
  /\ tierer' = [tierer EXCEPT ![c] = [pc |-> "idle"]]

\* The storage tiering service has been constructed: no access is recorded
\* and no thread is inside record_model_access.
InitAccessConc ==
  /\ store = [i \in Ids |-> NoRecord]
  /\ now = 0
  /\ created = 0
  /\ calls = [c \in Callers |-> Idle]
  /\ last = NoOp
  /\ beforeHibernate = [i \in Ids |-> NoRecord]
  /\ opt = OptIdle
  /\ batch = BatchIdle
  /\ PriceIdle
  /\ MonitorIdle
  /\ access_data = NoAccessData
  /\ accessed = NoMetricsData
  /\ files = NoFiles
  /\ models = NoModels
  /\ tierer = [c \in Callers |-> [pc |-> "idle"]]

AccessConcNext ==
  /\ \E c \in Callers :
       \/ \E model_id \in AccessKeys, is_optimized \in BOOLEAN :
            RecordAccessLoad(c, model_id, is_optimized)
       \/ RecordAccessSave(c)
  /\ UNCHANGED <<store, created, calls, last, beforeHibernate, opt, batch,
                  price_file, pricers, files, models, monVars>>

SpecAccessConc == InitAccessConc /\ [][AccessConcNext]_vars

\* Every call of record_model_access has returned.
NoAccessInProgress == \A c \in Callers : tierer[c].pc = "idle"

\* C40: concurrent record_model_access calls for different keys both take
\* effect: once the calls have returned, a key that was recorded once has
\* total_accesses 1 and its last_access and access_history hold the time of
\* that call; no call's update is lost to a call for another key that wrote
\* the file back from a stale read.
C40_CallsForDifferentKeysBothTakeEffect ==
  NoAccessInProgress =>
    \A k \in DOMAIN accessed :
      Len(accessed[k]) = 1 =>
        /\ k \in DOMAIN access_data
        /\ access_data[k] = [total_accesses |-> 1,
                             last_access |-> accessed[k][1],
                             access_history |-> accessed[k]]
====
